---- MODULE Spec2Model ----
(***************************************************************************)
(* The geometric layout validation engine of src/utils/geometry.ts:        *)
(* the spatial grid, the cached corner computation, the separating-axis    *)
(* test and validateLayout, together with the module-level corner cache    *)
(* that survives from one validateLayout call to the next.                 *)
(*                                                                         *)
(* Numbers.  Element coordinates are integers (plane units) and rotations  *)
(* are whole eighths of a turn.  Corner coordinates, projections and the   *)
(* comparisons made on them are IEEE 754 doubles, computed in the order of *)
(* the source; Math.cos and Math.sin are the doubles they return for these *)
(* angles, so the cosine of a quarter turn is 6.1e-17 and not 0.           *)
(***************************************************************************)
EXTENDS Integers, Sequences, FiniteSets

VARIABLES
    layout,       \* the ParkingLayout the caller holds (argument of validateLayout)
    cornerCache,  \* module-level Map: cache key -> corners
    violations,   \* value returned by the most recent validateLayout call
    validated,    \* TRUE iff violations is the result for the current layout
    calls,        \* number of validateLayout calls made so far
    cacheAtCall,  \* cornerCache as the most recent validateLayout call found it
    boxCall,      \* a getIntersectionBox call: its arguments and its result
    fix,          \* runIterativeFix: position, locals and the record of its run
    retry         \* generateWithRetry: position, locals and the record of its run

vars == <<layout, cornerCache, violations, validated, calls, cacheAtCall,
          boxCall, fix, retry>>

\* the state of validateLayout and its caller
geometry == <<layout, cornerCache, violations, validated, calls, cacheAtCall>>

\* the state of the other functions
otherCalls == <<boxCall, fix, retry>>

---------------------------------------------------------------------------
(* Bounds of the model *)

\* most elements of a layout under Spec, SpecScenario, SpecCache
MaxElements == 3
ScenarioSize == 4
CacheElements == 2
\* most elements of a layout under SpecRules
RuleElements == 4
\* most elements of a layout of SpecShapes, of SpecTurn
ShapeElements == 3
TurnElements == 3
\* most elements of a layout of SpecFlush
FlushElements == 4
\* most elements of a layout of SpecNear
NearElements == 3
\* SpecFill: elements of a generated layout, most calls on generated
\* layouts, most calls in one behaviour
BatchSize == 100
MaxBulk == 21
MaxFill == 24
\* most validateLayout calls in one behaviour
MaxCalls == 2
\* largest `retries` argument of generateWithRetry
MaxRetries == 4
\* pillars of the layout under repair that may lie across the border
MaxFlaws == 6

---------------------------------------------------------------------------
(* Program constants *)

CellSize == 100
CacheLimit == 2000
ConnectorThreshold == 2
OnRoadPad == 2
\* EPSILON = 0.5, kept in half units
EPSILON2 == 1
\* the canvas of mapToInternalLayout and of the initial layout
CanvasWidth == 800
CanvasHeight == 600
\* sleep(2000 * Math.pow(2, i))
BaseDelay == 2000
\* calculateScore: the weight of a violation by its type
OverlapWeight == 5
ConnectivityWeight == 10
OutOfBoundsWeight == 8
OtherWeight == 2
\* runIterativeFix(..., maxPasses = 6)
DefaultMaxPasses == 6
\* let lastScore = Infinity: above every score
Infinity == 2147483647

---------------------------------------------------------------------------
(* ElementType *)

GROUND == "ground"
ROAD == "road"
PARKING_SPACE == "parking_space"
SIDEWALK == "sidewalk"
RAMP == "ramp"
PILLAR == "pillar"
WALL == "wall"
ENTRANCE == "entrance"
EXIT == "exit"
STAIRCASE == "staircase"
ELEVATOR == "elevator"
CHARGING_STATION == "charging_station"
GUIDANCE_SIGN == "guidance_sign"
SAFE_EXIT == "safe_exit"
SPEED_BUMP == "speed_bump"
FIRE_EXTINGUISHER == "fire_extinguisher"
LANE_LINE == "lane_line"
CONVEX_MIRROR == "convex_mirror"

solidTypes ==
    {PARKING_SPACE, PILLAR, WALL, STAIRCASE, ELEVATOR, ROAD, RAMP,
     CHARGING_STATION, ENTRANCE, EXIT}

itemsOnRoad == {GUIDANCE_SIGN, SIDEWALK, SPEED_BUMP, LANE_LINE, CONVEX_MIRROR}

itemsNotOnRoad ==
    {STAIRCASE, ELEVATOR, SAFE_EXIT, FIRE_EXTINGUISHER, ENTRANCE, EXIT, RAMP}

navigableTypes == {ROAD, RAMP, ENTRANCE, EXIT}

---------------------------------------------------------------------------
(* Strings.  An id is a string; its UTF-16 code units are what the         *)
(* relational operators and the cache key see.                             *)

CodeUnits(id) ==
    CASE id = "a" -> <<97>>
      [] id = "b" -> <<98>>
      [] id = "c" -> <<99>>
      [] id = "d" -> <<100>>
      [] id = "e" -> <<101>>
      [] id = "f" -> <<102>>
      [] id = "g" -> <<103>>
      [] id = "h" -> <<104>>
      [] id = "9" -> <<57>>
      [] id = "10" -> <<49, 48>>
      [] id = "global" -> <<103, 108, 111, 98, 97, 108>>
      [] id = "p1" -> <<112, 49>>
      [] id = "p2" -> <<112, 50>>
      [] id = "p3" -> <<112, 51>>
      [] id = "p4" -> <<112, 52>>
      [] id = "p5" -> <<112, 53>>
      [] id = "p6" -> <<112, 54>>
      [] id = "p7" -> <<112, 55>>
      [] id = "island" -> <<105, 115, 108, 97, 110, 100>>
      [] id = "" -> <<>>
      [] id = "el_4fzzzxjyl" -> <<101, 108, 95, 52, 102, 122, 122, 122, 120, 106, 121, 108>>
      [] id = "el_8m2k0q7wc" -> <<101, 108, 95, 56, 109, 50, 107, 48, 113, 55, 119, 99>>

\* a < b on strings: lexicographic on code units, a proper prefix is smaller
RECURSIVE SeqLess(_, _)
SeqLess(s, t) ==
    IF t = <<>> THEN FALSE
    ELSE IF s = <<>> THEN TRUE
    ELSE IF Head(s) # Head(t) THEN Head(s) < Head(t)
    ELSE SeqLess(Tail(s), Tail(t))

StrLess(a, b) == SeqLess(CodeUnits(a), CodeUnits(b))

\* String(n) for an integer n, as code units
RECURSIVE NumberToString(_)
NumberToString(n) ==
    IF n < 0 THEN <<45>> \o NumberToString(-n)
    ELSE IF n < 10 THEN <<48 + n>>
    ELSE NumberToString(n \div 10) \o <<48 + (n % 10)>>

UNDERSCORE == <<95>>
COMMA == <<44>>
\* "undefined"
UndefinedString == <<117, 110, 100, 101, 102, 105, 110, 101, 100>>

HasRotation(el) == "rotation" \in DOMAIN el

\* `${el.rotation}`
RotationString(el) ==
    IF HasRotation(el) THEN NumberToString(el.rotation) ELSE UndefinedString

\* an absent rotation taken for a quarter turn
RotationOrQuarter(el) == IF HasRotation(el) THEN el.rotation ELSE 90

\* el.rotation || 0
RotationOrZero(el) == IF HasRotation(el) THEN el.rotation ELSE 0

Max(a, b) == IF a > b THEN a ELSE b
Min(a, b) == IF a < b THEN a ELSE b

\* TLC evaluates an operator's arguments on demand.  Every loop below tests
\* Evaluated(accumulator) as it goes round, so that the accumulator is a
\* value by then and a long loop is not left behind as one deeply nested
\* pending expression.  The test is TRUE of every value.
Evaluated(v) == v = v

EmptyMap == [k \in {} |-> 0]

SeqToSet(s) == {s[n] : n \in 1..Len(s)}

InSeq(x, s) == \E n \in 1..Len(s) : s[n] = x

Indices(elements) == [n \in 1..Len(elements) |-> n]

\* the members of the index sequence idxs whose element has a type in types
OfTypes(elements, idxs, types) ==
    SelectSeq(idxs, LAMBDA i : elements[i].type \in types)

---------------------------------------------------------------------------
(* SpatialGrid.  A cell key is the string `${x},${y}`; a bucket holds      *)
(* element references, modelled by their index in layout.elements.         *)

\* keys.push(`${x},${y}`) in getKeysForElement: x and y are cell indices.
\* (getKey, which floors plane coordinates first, is called nowhere.)
CellKey(x, y) == NumberToString(x) \o COMMA \o NumberToString(y)

\* Math.floor(v / cellSize)
CellOf(v) == v \div CellSize

\* the two nested for loops: x from startX to endX, y from startY to endY
KeysInRange(startX, endX, startY, endY) ==
    IF endX < startX \/ endY < startY THEN <<>>
    ELSE [n \in 1..((endX - startX + 1) * (endY - startY + 1)) |->
            CellKey(startX + ((n - 1) \div (endY - startY + 1)),
                    startY + ((n - 1) % (endY - startY + 1)))]

\* a cell range that stops short of the cell the far edge lies on
getKeysForElementHalfOpen(el) ==
    KeysInRange(CellOf(el.x), CellOf(el.x + el.width - 1),
                CellOf(el.y), CellOf(el.y + el.height - 1))

getKeysForElement(el) ==
    KeysInRange(CellOf(el.x), CellOf(el.x + el.width),
                CellOf(el.y), CellOf(el.y + el.height))

\* keys.forEach(key => ... this.grid.get(key).push(el)): the keys of one
\* element are pairwise distinct, so every covered bucket gets it once
PushToBuckets(grid, keys, i) ==
    [k \in (DOMAIN grid) \cup keys |->
        IF k \in keys
        THEN (IF k \in DOMAIN grid THEN grid[k] ELSE <<>>) \o <<i>>
        ELSE grid[k]]

\* grid.add(el)
GridAdd(grid, el, i) == PushToBuckets(grid, SeqToSet(getKeysForElement(el)), i)

RECURSIVE BuildGridFrom(_, _, _)
BuildGridFrom(elements, i, grid) ==
    IF Evaluated(grid) /\ i <= Len(elements)
    THEN BuildGridFrom(elements, i + 1, GridAdd(grid, elements[i], i))
    ELSE grid

\* new SpatialGrid(100); layout.elements.forEach(el => grid.add(el))
BuildGrid(elements) == BuildGridFrom(elements, 1, EmptyMap)

\* the inner cell.forEach: a Set keeps the first insertion of a reference
RECURSIVE CollectCell(_, _, _, _, _)
CollectCell(cell, j, elements, id, candidates) ==
    IF Evaluated(candidates) /\ j <= Len(cell)
    THEN CollectCell(cell, j + 1, elements, id,
            IF elements[cell[j]].id # id /\ ~InSeq(cell[j], candidates)
            THEN Append(candidates, cell[j])
            ELSE candidates)
    ELSE candidates

RECURSIVE CollectKeys(_, _, _, _, _, _)
CollectKeys(grid, keys, n, elements, id, candidates) ==
    IF Evaluated(candidates) /\ n <= Len(keys)
    THEN CollectKeys(grid, keys, n + 1, elements, id,
            IF keys[n] \in DOMAIN grid
            THEN CollectCell(grid[keys[n]], 1, elements, id, candidates)
            ELSE candidates)
    ELSE candidates

\* grid.getPotentialCollisions(el): indices of the candidates, in Set order
getPotentialCollisions(grid, elements, el) ==
    CollectKeys(grid, getKeysForElement(el), 1, elements, el.id, <<>>)

\* grid.getPotentialCollisions(el).filter(c => c.type is one of types)
Nearby(grid, elements, el, types) ==
    OfTypes(elements, getPotentialCollisions(grid, elements, el), types)

---------------------------------------------------------------------------
(* Cached geometry *)

\* a key that leaves the rotation out
cacheKeyWithoutRotation(el) ==
    CodeUnits(el.id) \o UNDERSCORE \o NumberToString(el.x)
        \o UNDERSCORE \o NumberToString(el.y)
        \o UNDERSCORE \o NumberToString(el.width)
        \o UNDERSCORE \o NumberToString(el.height)

cacheKey(el) ==
    CodeUnits(el.id) \o UNDERSCORE \o NumberToString(el.x)
        \o UNDERSCORE \o NumberToString(el.y)
        \o UNDERSCORE \o NumberToString(el.width)
        \o UNDERSCORE \o NumberToString(el.height)
        \o UNDERSCORE \o RotationString(el)

(* JavaScript numbers.  A number is an IEEE 754 double.  The whole      *)
(* multiples of 1/2 below 2^28 in size, which are all the numbers of an    *)
(* unrotated layout, are written Halves(h), of value h / 2.  Every other   *)
(* double is written Double(neg, m, e), of value (-1)^neg * m * 2^e, with  *)
(* m an odd natural number of at most 53 bits given as its list of 15-bit  *)
(* digits, lowest first.  Each double has one such form.  +, - and * give  *)
(* the exact result rounded to 53 bits, ties to even, as the hardware      *)
(* does; on halves whose result is a half that is the integer operation.   *)
(* The numbers of a layout are far from overflow and underflow.            *)

\* Math.pow(2, i)
RECURSIVE Pow2(_)
Pow2(i) == IF i = 0 THEN 1 ELSE 2 * Pow2(i - 1)

\* the bits of a digit: a product of two digits is below 2^30
DigitBits == 30 \div 2

Radix == Pow2(DigitBits)

\* 2^i for i up to DigitBits
Powers == [i \in 0..DigitBits |-> Pow2(i)]

\* the significand of a double: 52 stored bits and the leading one
Precision == 52 + 1

Digit(a, i) == IF i <= Len(a) THEN a[i] ELSE 0

RECURSIVE Trim(_)
Trim(a) ==
    IF a = <<>> THEN a
    ELSE IF a[Len(a)] = 0 THEN Trim(SubSeq(a, 1, Len(a) - 1))
    ELSE a

RECURSIVE NatDigits(_)
NatDigits(n) == IF n = 0 THEN <<>> ELSE <<n % Radix>> \o NatDigits(n \div Radix)

RECURSIVE AddFrom(_, _, _, _, _)
AddFrom(a, b, i, carry, acc) ==
    IF i > Len(a) /\ i > Len(b)
    THEN IF carry = 0 THEN acc ELSE Append(acc, carry)
    ELSE AddFrom(a, b, i + 1,
                 (Digit(a, i) + Digit(b, i) + carry) \div Radix,
                 Append(acc, (Digit(a, i) + Digit(b, i) + carry) % Radix))

BigAdd(a, b) == AddFrom(a, b, 1, 0, <<>>)

\* a - b for a >= b
RECURSIVE SubFrom(_, _, _, _, _)
SubFrom(a, b, i, borrow, acc) ==
    IF i > Len(a) THEN Trim(acc)
    ELSE SubFrom(a, b, i + 1,
                 IF a[i] - Digit(b, i) - borrow < 0 THEN 1 ELSE 0,
                 Append(acc, (a[i] - Digit(b, i) - borrow + Radix) % Radix))

BigSub(a, b) == SubFrom(a, b, 1, 0, <<>>)

RECURSIVE LessFrom(_, _, _)
LessFrom(a, b, i) ==
    IF i = 0 THEN FALSE
    ELSE IF a[i] # b[i] THEN a[i] < b[i]
    ELSE LessFrom(a, b, i - 1)

BigLess(a, b) ==
    IF Len(a) # Len(b) THEN Len(a) < Len(b) ELSE LessFrom(a, b, Len(a))

\* a * d for one digit d > 0
RECURSIVE TimesDigitFrom(_, _, _, _, _)
TimesDigitFrom(a, d, i, carry, acc) ==
    IF i > Len(a)
    THEN IF carry = 0 THEN acc ELSE Append(acc, carry)
    ELSE TimesDigitFrom(a, d, i + 1, (a[i] * d + carry) \div Radix,
                        Append(acc, (a[i] * d + carry) % Radix))

TimesDigit(a, d) == IF d = 1 THEN a ELSE TimesDigitFrom(a, d, 1, 0, <<>>)

Zeros(n) == [i \in 1..n |-> 0]

RECURSIVE MulFrom(_, _, _, _)
MulFrom(a, b, j, acc) ==
    IF j > Len(b) THEN acc
    ELSE IF b[j] = 0 THEN MulFrom(a, b, j + 1, acc)
    ELSE MulFrom(a, b, j + 1, BigAdd(acc, Zeros(j - 1) \o TimesDigit(a, b[j])))

BigMul(a, b) ==
    IF Len(a) = 1 /\ Len(b) = 1 THEN NatDigits(a[1] * b[1])
    ELSE MulFrom(a, b, 1, <<>>)

\* a * 2^k for a > 0
BigShl(a, k) ==
    IF k = 0 THEN a
    ELSE Zeros(k \div DigitBits) \o TimesDigit(a, Powers[k % DigitBits])

\* the digits of a from digit q + 1 on, divided by 2^r, r < DigitBits
ShrDigits(a, q, r) ==
    Trim([i \in 1..(Len(a) - q) |->
            (a[q + i] \div Powers[r])
                + (Digit(a, q + i + 1) % Powers[r]) * Powers[DigitBits - r]])

\* floor(a / 2^k)
BigShr(a, k) ==
    IF k = 0 THEN a
    ELSE IF k \div DigitBits >= Len(a) THEN <<>>
    ELSE ShrDigits(a, k \div DigitBits, k % DigitBits)

RECURSIVE BitsOf(_)
BitsOf(n) == IF n = 0 THEN 0 ELSE 1 + BitsOf(n \div 2)

\* the number of bits of a
BitLen(a) ==
    IF a = <<>> THEN 0 ELSE DigitBits * (Len(a) - 1) + BitsOf(a[Len(a)])

\* bit i of a, the lowest being bit 0
BitAt(a, i) == (Digit(a, (i \div DigitBits) + 1) \div Powers[i % DigitBits]) % 2

RECURSIVE ZeroBitsOf(_)
ZeroBitsOf(n) == IF n % 2 = 1 THEN 0 ELSE 1 + ZeroBitsOf(n \div 2)

\* the number of 0 bits below the lowest 1 bit of a > 0, from digit i on
RECURSIVE TrailingZeros(_, _)
TrailingZeros(a, i) ==
    IF a[i] = 0 THEN DigitBits + TrailingZeros(a, i + 1) ELSE ZeroBitsOf(a[i])

Halves(h) == [h |-> h]

IsHalves(u) == "h" \in DOMAIN u

Double(neg, m, e) == [neg |-> neg, m |-> m, e |-> e]

Zero == Halves(0)

IsZero(u) == IsHalves(u) /\ u.h = 0

Abs(n) == IF n < 0 THEN 0 - n ELSE n

\* the halves are kept below 2^HalvesBits in size: a sum of two of them and
\* a product of two digits are within the integers of the model
HalvesBits == 2 * DigitBits - 1

HalvesBound == Pow2(HalvesBits)

\* the number of a list of at most two digits
Value(m) == m[1] + Digit(m, 2) * Radix

\* the one form of the double d, its digits being odd
Kept(d) ==
    IF d.e >= -1 /\ BitLen(d.m) + d.e + 1 <= HalvesBits
    THEN Halves((IF d.neg THEN -1 ELSE 1) * Value(d.m) * Pow2(d.e + 1))
    ELSE d

\* m * 2^e with the trailing zero bits of m moved to the exponent
Shortened(neg, m, e, zeros) == Kept(Double(neg, BigShr(m, zeros), e + zeros))

\* the one form of the double (-1)^neg * m * 2^e, m of at most 53 bits
Canonical(neg, m, e) ==
    IF m = <<>> THEN Zero ELSE Shortened(neg, m, e, TrailingZeros(m, 1))

\* round to nearest, ties to even, on cutting the k > 0 low bits of m
RoundsUp(m, k) ==
    IF BitAt(m, k - 1) = 0 THEN FALSE
    ELSE IF TrailingZeros(m, 1) < k - 1 THEN TRUE
    ELSE BitAt(m, k) = 1

\* q, or q + 1 on rounding up
Carried(q, up) == IF up THEN BigAdd(q, <<1>>) ELSE q

Cut(neg, m, e, k) ==
    Canonical(neg, Carried(BigShr(m, k), k > 0 /\ RoundsUp(m, k)), e + k)

\* the bits of m over the 53 of a double
Excess(bits) == IF bits > Precision THEN bits - Precision ELSE 0

\* the double nearest to (-1)^neg * m * 2^e
Rounded(neg, m, e) == Cut(neg, m, e, Excess(BitLen(m)))

\* the number n, an integer below 2^28 in size as all of a layout are
Num(n) == Halves(2 * n)

\* the sign, digits and exponent of a number, the digits odd or even
Long(u) ==
    IF IsHalves(u) THEN Double(u.h < 0, NatDigits(Abs(u.h)), -1) ELSE u

\* -u
Negated(u) == IF IsHalves(u) THEN Halves(0 - u.h) ELSE [u EXCEPT !.neg = ~@]

\* u / 2
Halved(u) ==
    IF IsHalves(u)
    THEN IF u.h % 2 = 0 THEN Halves(u.h \div 2)
         ELSE Double(u.h < 0, NatDigits(Abs(u.h)), -2)
    ELSE Kept([u EXCEPT !.e = @ - 1])

\* the sum of (-1)^na * a * 2^e and (-1)^nb * b * 2^e, less being a < b
SumOrdered(na, a, nb, b, e, less) ==
    Rounded(IF na # nb /\ less THEN nb ELSE na,
            IF na = nb THEN BigAdd(a, b)
            ELSE BigSub(IF less THEN b ELSE a, IF less THEN a ELSE b),
            e)

SumAligned(na, a, nb, b, e) == SumOrdered(na, a, nb, b, e, BigLess(a, b))

\* a * 2^k for a >= 0
Shifted(a, k) == IF a = <<>> THEN a ELSE BigShl(a, k)

SumAt(u, v, e) ==
    SumAligned(u.neg, Shifted(u.m, u.e - e), v.neg, Shifted(v.m, v.e - e), e)

LongSum(u, v) == SumAt(u, v, IF u.e < v.e THEN u.e ELSE v.e)

\* the halves u and v have a sum within bound
ShortSum(u, v) ==
    /\ IsHalves(u)
    /\ IsHalves(v)
    /\ Abs(u.h + v.h) < HalvesBound

\* u + v
Plus(u, v) ==
    IF ShortSum(u, v) THEN Halves(u.h + v.h) ELSE LongSum(Long(u), Long(v))

\* u - v
Minus(u, v) == Plus(u, Negated(v))

LongProduct(u, v) == Rounded(u.neg # v.neg, BigMul(u.m, v.m), u.e + v.e)

\* the halves u and v have a product that is a half again and within bound
ShortProduct(u, v) ==
    /\ IsHalves(u)
    /\ IsHalves(v)
    /\ Abs(u.h) < Radix
    /\ Abs(v.h) < Radix
    /\ (u.h * v.h) % 2 = 0

\* u * v
Times(u, v) ==
    IF IsZero(u) \/ IsZero(v) THEN Zero
    ELSE IF ShortProduct(u, v) THEN Halves((u.h * v.h) \div 2)
    ELSE LongProduct(Long(u), Long(v))

\* |u| < |v| for u and v at the exponent e
SmallerAt(u, v, e) == BigLess(Shifted(u.m, u.e - e), Shifted(v.m, v.e - e))

Smaller(u, v) == SmallerAt(u, v, IF u.e < v.e THEN u.e ELSE v.e)

LongLess(u, v) ==
    IF u.neg # v.neg THEN u.neg
    ELSE Smaller(IF u.neg THEN v ELSE u, IF u.neg THEN u ELSE v)

\* u < v
Less(u, v) ==
    IF IsHalves(u) /\ IsHalves(v) THEN u.h < v.h ELSE LongLess(Long(u), Long(v))

\* Math.cos((rotation * Math.PI) / 180) and Math.sin of it: the doubles the
\* library returns for whole eighths of a turn up to two turns either way
Cos(rotation) ==
    CASE rotation = -720 -> Halves(2)
      [] rotation = -675 -> Double(FALSE, <<15311, 19710, 633, 181>>, -53)
      [] rotation = -630 -> Double(TRUE, <<26691, 27825, 25282, 61>>, -102)
      [] rotation = -585 -> Double(TRUE, <<15305, 19710, 633, 181>>, -53)
      [] rotation = -540 -> Halves(-2)
      [] rotation = -495 -> Double(TRUE, <<29629, 19663, 10279, 11>>, -49)
      [] rotation = -450 -> Double(FALSE, <<29449, 32690, 16062, 176>>, -104)
      [] rotation = -405 -> Double(FALSE, <<20213, 13119, 8350, 45>>, -51)
      [] rotation = -360 -> Halves(2)
      [] rotation = -315 -> Double(FALSE, <<15307, 19710, 633, 181>>, -53)
      [] rotation = -270 -> Double(TRUE, <<17669, 19614, 29298, 105>>, -104)
      [] rotation = -225 -> Double(TRUE, <<7655, 26239, 16700, 90>>, -52)
      [] rotation = -180 -> Halves(-2)
      [] rotation = -135 -> Double(TRUE, <<20211, 13119, 8350, 45>>, -51)
      [] rotation = -90 -> Double(FALSE, <<23559, 26152, 6296, 141>>, -106)
      [] rotation = -45 -> Double(FALSE, <<15309, 19710, 633, 181>>, -53)
      [] rotation = 0 -> Halves(2)
      [] rotation = 45 -> Double(FALSE, <<15309, 19710, 633, 181>>, -53)
      [] rotation = 90 -> Double(FALSE, <<23559, 26152, 6296, 141>>, -106)
      [] rotation = 135 -> Double(TRUE, <<20211, 13119, 8350, 45>>, -51)
      [] rotation = 180 -> Halves(-2)
      [] rotation = 225 -> Double(TRUE, <<7655, 26239, 16700, 90>>, -52)
      [] rotation = 270 -> Double(TRUE, <<17669, 19614, 29298, 105>>, -104)
      [] rotation = 315 -> Double(FALSE, <<15307, 19710, 633, 181>>, -53)
      [] rotation = 360 -> Halves(2)
      [] rotation = 405 -> Double(FALSE, <<20213, 13119, 8350, 45>>, -51)
      [] rotation = 450 -> Double(FALSE, <<29449, 32690, 16062, 176>>, -104)
      [] rotation = 495 -> Double(TRUE, <<29629, 19663, 10279, 11>>, -49)
      [] rotation = 540 -> Halves(-2)
      [] rotation = 585 -> Double(TRUE, <<15305, 19710, 633, 181>>, -53)
      [] rotation = 630 -> Double(TRUE, <<26691, 27825, 25282, 61>>, -102)
      [] rotation = 675 -> Double(FALSE, <<15311, 19710, 633, 181>>, -53)
      [] rotation = 720 -> Halves(2)

Sin(rotation) ==
    CASE rotation = -720 -> Double(FALSE, <<23559, 26152, 6296, 141>>, -103)
      [] rotation = -675 -> Double(FALSE, <<7653, 26239, 16700, 90>>, -52)
      [] rotation = -630 -> Halves(2)
      [] rotation = -585 -> Double(FALSE, <<29629, 19663, 10279, 11>>, -49)
      [] rotation = -540 -> Double(TRUE, <<17669, 19614, 29298, 105>>, -103)
      [] rotation = -495 -> Double(TRUE, <<15305, 19710, 633, 181>>, -53)
      [] rotation = -450 -> Halves(-2)
      [] rotation = -405 -> Double(TRUE, <<15301, 19710, 633, 181>>, -53)
      [] rotation = -360 -> Double(FALSE, <<23559, 26152, 6296, 141>>, -104)
      [] rotation = -315 -> Double(FALSE, <<7655, 26239, 16700, 90>>, -52)
      [] rotation = -270 -> Halves(2)
      [] rotation = -225 -> Double(FALSE, <<20211, 13119, 8350, 45>>, -51)
      [] rotation = -180 -> Double(TRUE, <<23559, 26152, 6296, 141>>, -105)
      [] rotation = -135 -> Double(TRUE, <<15309, 19710, 633, 181>>, -53)
      [] rotation = -90 -> Halves(-2)
      [] rotation = -45 -> Double(TRUE, <<20211, 13119, 8350, 45>>, -51)
      [] rotation = 0 -> Halves(0)
      [] rotation = 45 -> Double(FALSE, <<20211, 13119, 8350, 45>>, -51)
      [] rotation = 90 -> Halves(2)
      [] rotation = 135 -> Double(FALSE, <<15309, 19710, 633, 181>>, -53)
      [] rotation = 180 -> Double(FALSE, <<23559, 26152, 6296, 141>>, -105)
      [] rotation = 225 -> Double(TRUE, <<20211, 13119, 8350, 45>>, -51)
      [] rotation = 270 -> Halves(-2)
      [] rotation = 315 -> Double(TRUE, <<7655, 26239, 16700, 90>>, -52)
      [] rotation = 360 -> Double(TRUE, <<23559, 26152, 6296, 141>>, -104)
      [] rotation = 405 -> Double(FALSE, <<15301, 19710, 633, 181>>, -53)
      [] rotation = 450 -> Halves(2)
      [] rotation = 495 -> Double(FALSE, <<15305, 19710, 633, 181>>, -53)
      [] rotation = 540 -> Double(FALSE, <<17669, 19614, 29298, 105>>, -103)
      [] rotation = 585 -> Double(TRUE, <<29629, 19663, 10279, 11>>, -49)
      [] rotation = 630 -> Halves(-2)
      [] rotation = 675 -> Double(TRUE, <<7653, 26239, 16700, 90>>, -52)
      [] rotation = 720 -> Double(TRUE, <<23559, 26152, 6296, 141>>, -103)

\* the point at (dx, dy) from the centre (cx, cy), turned about the centre
Turned(dx, dy, cx, cy, cos, sin) ==
    [x |-> Minus(Plus(cx, Times(dx, cos)), Times(dy, sin)),
     y |-> Plus(Plus(cy, Times(dx, sin)), Times(dy, cos))]

\* the map callback: dx = p.x - cx, dy = p.y - cy, and the turned point
RotatePoint(p, cx, cy, cos, sin) ==
    Turned(Minus(p.x, cx), Minus(p.y, cy), cx, cy, cos, sin)

\* the four corners before rotation
RawCorners(el) ==
    << [x |-> Num(el.x), y |-> Num(el.y)],
       [x |-> Num(el.x + el.width), y |-> Num(el.y)],
       [x |-> Num(el.x + el.width), y |-> Num(el.y + el.height)],
       [x |-> Num(el.x), y |-> Num(el.y + el.height)] >>

\* el.x + el.width / 2
Centre(lo, length) == Plus(Num(lo), Halved(Num(length)))

\* [...].map(callback), from corner n on
RECURSIVE RotateFrom(_, _, _, _, _, _, _)
RotateFrom(raw, cx, cy, cos, sin, n, acc) ==
    IF n > Len(raw) THEN acc
    ELSE RotateFrom(raw, cx, cy, cos, sin, n + 1,
                    Append(acc, RotatePoint(raw[n], cx, cy, cos, sin)))

RotateAll(raw, cx, cy, cos, sin) == RotateFrom(raw, cx, cy, cos, sin, 1, <<>>)

\* the corners of the element without its rotation
ComputeCornersUnturned(el) ==
    RotateAll(RawCorners(el), Centre(el.x, el.width), Centre(el.y, el.height),
              Cos(0), Sin(0))

\* the corners of the rotated rectangle
ComputeCorners(el) ==
    RotateAll(RawCorners(el), Centre(el.x, el.width), Centre(el.y, el.height),
              Cos(RotationOrZero(el)), Sin(RotationOrZero(el)))

\* a cache that is never cleared
ClearNever(cache) == cache

\* if (cornerCache.size > 2000) cornerCache.clear()
ClearIfLarge(cache) ==
    IF Cardinality(DOMAIN cache) > CacheLimit THEN EmptyMap ELSE cache

\* cornerCache.set(key, corners)
MapSet(cache, key, corners) ==
    [k \in (DOMAIN cache) \cup {key} |-> IF k = key THEN corners ELSE cache[k]]

\* a cache miss: [the corners returned, the cache left]
CacheMiss(key, corners, cache) ==
    [corners |-> corners, cache |-> MapSet(ClearIfLarge(cache), key, corners)]

CacheLookup(key, el, cache) ==
    IF key \in DOMAIN cache
    THEN [corners |-> cache[key], cache |-> cache]
    ELSE CacheMiss(key, ComputeCorners(el), cache)

\* getCorners(el) against the cache `cache`: [corners, cache]
getCorners(el, cache) == CacheLookup(cacheKey(el), el, cache)

\* nx * p.x + ny * p.y
Projected(nx, ny, p) == Plus(Times(nx, p.x), Times(ny, p.y))

RECURSIVE ProjectFrom(_, _, _, _, _)
ProjectFrom(nx, ny, p, n, acc) ==
    IF n > Len(p) THEN acc
    ELSE ProjectFrom(nx, ny, p, n + 1, Append(acc, Projected(nx, ny, p[n])))

\* the projections of polygon p on the normal (nx, ny)
Projections(nx, ny, p) == ProjectFrom(nx, ny, p, 1, <<>>)

\* if (projected < min) min = projected, from vertex n on
RECURSIVE MinFrom(_, _, _)
MinFrom(proj, n, min) ==
    IF n > Len(proj) THEN min
    ELSE MinFrom(proj, n + 1, IF Less(proj[n], min) THEN proj[n] ELSE min)

\* if (projected > max) max = projected, from vertex n on
RECURSIVE MaxFrom(_, _, _)
MaxFrom(proj, n, max) ==
    IF n > Len(proj) THEN max
    ELSE MaxFrom(proj, n + 1, IF Less(max, proj[n]) THEN proj[n] ELSE max)

SetMin(proj) == MinFrom(proj, 2, proj[1])
SetMax(proj) == MaxFrom(proj, 2, proj[1])

\* a separation test that also takes projections meeting in a point apart
DisjointOrMeeting(projA, projB) ==
    \/ ~Less(SetMin(projB), SetMax(projA))
    \/ ~Less(SetMin(projA), SetMax(projB))

\* maxA < minB || maxB < minA
Disjoint(projA, projB) ==
    Less(SetMax(projA), SetMin(projB)) \/ Less(SetMax(projB), SetMin(projA))

\* one normal of the separating-axis test; a zero normal is skipped
SeparatingAxis(nx, ny, a, b) ==
    IF IsZero(nx) /\ IsZero(ny) THEN FALSE
    ELSE Disjoint(Projections(nx, ny, a), Projections(nx, ny, b))

\* the edge from vertex j to vertex k = (j + 1) % length separates a and b
Separates(polygon, j, a, b) ==
    SeparatingAxis(Minus(polygon[(j % Len(polygon)) + 1].y, polygon[j].y),
                   Minus(polygon[j].x, polygon[(j % Len(polygon)) + 1].x), a, b)

isPolygonsIntersecting(a, b) ==
    IF Len(a) < 3 \/ Len(b) < 3 THEN FALSE
    ELSE /\ \A j \in 1..Len(a) : ~Separates(a, j, a, b)
         /\ \A j \in 1..Len(b) : ~Separates(b, j, a, b)

\* isPolygonsIntersecting(getCorners(a), getCorners(b)) against `cache`:
\* [result, cache], the two getCorners calls made left to right
IntersectBoth(cornersA, gb) ==
    [result |-> isPolygonsIntersecting(cornersA, gb.corners), cache |-> gb.cache]

IntersectSecond(ga, b) == IntersectBoth(ga.corners, getCorners(b, ga.cache))

IntersectCached(a, b, cache) == IntersectSecond(getCorners(a, cache), b)

\* the overlap depth of the padded road box and the item box on one axis
OverlapDepth(roadLo, roadLen, itemLo, itemLen, pad) ==
    Min(roadLo + roadLen + pad, itemLo + itemLen) - Max(roadLo - pad, itemLo)

\* an overlap test without the rejection of shallow overlaps
isOverlappingAtAnyDepth(road, item, pad, cache) == IntersectCached(road, item, cache)

\* isOverlapping(road, item, pad) against `cache`: [result, cache]
isOverlapping(road, item, pad, cache) ==
    IF \/ 2 * OverlapDepth(road.x, road.width, item.x, item.width, pad) < EPSILON2
       \/ 2 * OverlapDepth(road.y, road.height, item.y, item.height, pad) < EPSILON2
    THEN [result |-> FALSE, cache |-> cache]
    ELSE IntersectCached(road, item, cache)

\* a touch test that asks for half a unit of overlap depth
isTouchingInDepth(a, b, cache) == isOverlapping(a, b, 0, cache)

\* isTouching(a, b) against `cache`: [result, cache]
isTouching(a, b, cache) == IntersectCached(a, b, cache)

NullBox == [null |-> TRUE]

BoxOf(x1, y1, x2, y2) ==
    IF x1 < x2 /\ y1 < y2
    THEN [x |-> x1, y |-> y1, width |-> x2 - x1, height |-> y2 - y1]
    ELSE NullBox

getIntersectionBox(r1, r2) ==
    BoxOf(Max(r1.x, r2.x), Max(r1.y, r2.y),
          Min(r1.x + r1.width, r2.x + r2.width),
          Min(r1.y + r1.height, r2.y + r2.height))

---------------------------------------------------------------------------
(* validateLayout.  The passes hand on st = [violations, cache]: the       *)
(* violations pushed so far and the corner cache as the calls so far have  *)
(* left it.  A violation without a target has no targetId field.           *)

\* the quick AABB check on the unrotated box
QuickOutside(el, lay) ==
    \/ el.x < 0
    \/ el.x + el.width > lay.width
    \/ el.y < 0
    \/ el.y + el.height > lay.height

\* corners.some(p => p.x < 0 || p.x > layout.width || ...)
isOutside(corners, lay) ==
    \E n \in 1..Len(corners) :
        \/ Less(corners[n].x, Zero)
        \/ Less(Num(lay.width), corners[n].x)
        \/ Less(corners[n].y, Zero)
        \/ Less(Num(lay.height), corners[n].y)

OutOfBoundsViolation(el) ==
    [elementId |-> el.id, type |-> "out_of_bounds",
     message |-> "Element is outside boundary."]

PreciseCheck(el, lay, g, vs) ==
    [violations |-> IF isOutside(g.corners, lay)
                    THEN Append(vs, OutOfBoundsViolation(el))
                    ELSE vs,
     cache |-> g.cache]

BoundsStep(el, lay, st) ==
    IF QuickOutside(el, lay)
    THEN PreciseCheck(el, lay, getCorners(el, st.cache), st.violations)
    ELSE st

\* 1. Check Out of Bounds
RECURSIVE BoundsPass(_, _, _)
BoundsPass(lay, i, st) ==
    IF Evaluated(st) /\ i <= Len(lay.elements)
    THEN BoundsPass(lay, i + 1, BoundsStep(lay.elements[i], lay, st))
    ELSE st

\* no guard against checking a pair twice
SkipPairNever(elements, i1, i2) == FALSE

\* a double-check guard on list positions instead of ids
SkipPairByPosition(elements, i1, i2) == i1 >= i2

\* if (el1.id >= el2.id) return
SkipPair(elements, i1, i2) == ~StrLess(elements[i1].id, elements[i2].id)

\* a rule table without the wall / wall entry
PermittedOverlapButWalls(el1, el2) ==
    \/ el1.type = PARKING_SPACE /\ el2.type \in {GROUND, CHARGING_STATION}
    \/ el2.type = PARKING_SPACE /\ el1.type \in {GROUND, CHARGING_STATION}
    \/ el1.type = ROAD /\ el2.type = ROAD
    \/ el1.type = PILLAR /\ el2.type = WALL
    \/ el2.type = PILLAR /\ el1.type = WALL

PermittedOverlap(el1, el2) ==
    \/ el1.type = PARKING_SPACE /\ el2.type \in {GROUND, CHARGING_STATION}
    \/ el2.type = PARKING_SPACE /\ el1.type \in {GROUND, CHARGING_STATION}
    \/ el1.type = WALL /\ el2.type = WALL
    \/ el1.type = ROAD /\ el2.type = ROAD
    \/ el1.type = PILLAR /\ el2.type = WALL
    \/ el2.type = PILLAR /\ el1.type = WALL

isRamp(t) == t = RAMP
isConnector(t) == t \in {ROAD, ENTRANCE, EXIT}
isConnectorPair(t1, t2) ==
    (isRamp(t1) /\ isConnector(t2)) \/ (isRamp(t2) /\ isConnector(t1))

\* box && (box.width <= 2 || box.height <= 2)
ShallowBox(box) ==
    /\ box # NullBox
    /\ (box.width <= ConnectorThreshold \/ box.height <= ConnectorThreshold)

ConnectorExempt(el1, el2) ==
    /\ isConnectorPair(el1.type, el2.type)
    /\ ShallowBox(getIntersectionBox(el1, el2))

\* distSq < (r1 + r2)^2
DistCheck(el1, el2) ==
    (el1.x - el2.x) * (el1.x - el2.x) + (el1.y - el2.y) * (el1.y - el2.y)
        < (Max(el1.width, el1.height) + Max(el2.width, el2.height))
            * (Max(el1.width, el1.height) + Max(el2.width, el2.height))

\* an overlap violation that names el1 as its own target
OverlapViolationOnItself(el1, el2) ==
    [elementId |-> el1.id, targetId |-> el1.id, type |-> "overlap",
     message |-> el1.type \o " overlaps with " \o el2.type]

OverlapViolation(el1, el2) ==
    [elementId |-> el1.id, targetId |-> el2.id, type |-> "overlap",
     message |-> el1.type \o " overlaps with " \o el2.type]

NarrowPhase(el1, el2, r, vs) ==
    [violations |-> IF r.result
                    THEN Append(vs, OverlapViolation(el1, el2))
                    ELSE vs,
     cache |-> r.cache]

\* the body of candidates.forEach(el2 => ...)
OverlapPair(elements, i1, i2, st) ==
    IF \/ SkipPair(elements, i1, i2)
       \/ elements[i2].type \notin solidTypes
       \/ PermittedOverlap(elements[i1], elements[i2])
       \/ ConnectorExempt(elements[i1], elements[i2])
       \/ ~DistCheck(elements[i1], elements[i2])
    THEN st
    ELSE NarrowPhase(elements[i1], elements[i2],
                     IntersectCached(elements[i1], elements[i2], st.cache),
                     st.violations)

RECURSIVE OverlapCandidates(_, _, _, _, _)
OverlapCandidates(elements, i1, candidates, j, st) ==
    IF Evaluated(st) /\ j <= Len(candidates)
    THEN OverlapCandidates(elements, i1, candidates, j + 1,
            OverlapPair(elements, i1, candidates[j], st))
    ELSE st

\* 2. Overlap checks using the spatial grid
RECURSIVE OverlapPass(_, _, _, _, _)
OverlapPass(elements, grid, solids, n, st) ==
    IF Evaluated(st) /\ n <= Len(solids)
    THEN OverlapPass(elements, grid, solids, n + 1,
            OverlapCandidates(elements, solids[n],
                getPotentialCollisions(grid, elements, elements[solids[n]]),
                1, st))
    ELSE st

\* nearbyRoads.some(road => isOverlapping(road, item, pad)): [result, cache];
\* some() stops at the first road for which the callback is true
RECURSIVE SomeOverlapping(_, _, _, _, _, _)
RECURSIVE SomeOverlappingFrom(_, _, _, _, _, _)
SomeOverlappingFrom(elements, roads, n, item, pad, r) ==
    IF r.result THEN r
    ELSE SomeOverlapping(elements, roads, n + 1, item, pad, r.cache)

SomeOverlapping(elements, roads, n, item, pad, cache) ==
    IF n > Len(roads) THEN [result |-> FALSE, cache |-> cache]
    ELSE SomeOverlappingFrom(elements, roads, n, item, pad,
            isOverlapping(elements[roads[n]], item, pad, cache))

PlacementViolation(id, text) ==
    [elementId |-> id, type |-> "placement_error", message |-> text]

\* an on-road result with the test negated once too often
OnRoadResultNegated(item, r, vs) ==
    [violations |-> IF r.result
                    THEN Append(vs, PlacementViolation(item.id,
                            item.type \o " must be placed on a Driving Lane."))
                    ELSE vs,
     cache |-> r.cache]

OnRoadResult(item, r, vs) ==
    [violations |-> IF ~r.result
                    THEN Append(vs, PlacementViolation(item.id,
                            item.type \o " must be placed on a Driving Lane."))
                    ELSE vs,
     cache |-> r.cache]

\* Must be ON Road
MustBeOnRoad(elements, grid, item, st) ==
    IF item.type \in itemsOnRoad
    THEN OnRoadResult(item,
            SomeOverlapping(elements, Nearby(grid, elements, item, {ROAD}),
                            1, item, OnRoadPad, st.cache),
            st.violations)
    ELSE st

OffRoadResult(item, r, vs) ==
    [violations |-> IF r.result /\ item.type # SIDEWALK
                    THEN Append(vs, PlacementViolation(item.id,
                            item.type \o " must NOT overlap a Driving Lane."))
                    ELSE vs,
     cache |-> r.cache]

\* Must be OFF Road
MustBeOffRoad(elements, grid, item, st) ==
    IF item.type \in itemsNotOnRoad
    THEN OffRoadResult(item,
            SomeOverlapping(elements, Nearby(grid, elements, item, {ROAD}),
                            1, item, 0, st.cache),
            st.violations)
    ELSE st

\* 3. Placement constraints
RECURSIVE PlacementPass(_, _, _, _)
PlacementPass(elements, grid, i, st) ==
    IF Evaluated(st) /\ i <= Len(elements)
    THEN PlacementPass(elements, grid, i + 1,
            MustBeOffRoad(elements, grid, elements[i],
                MustBeOnRoad(elements, grid, elements[i], st)))
    ELSE st

\* others.some(o => isTouching(o, el)): [result, cache]
RECURSIVE SomeTouching(_, _, _, _, _)
RECURSIVE SomeTouchingFrom(_, _, _, _, _)
SomeTouchingFrom(elements, others, n, el, r) ==
    IF r.result THEN r
    ELSE SomeTouching(elements, others, n + 1, el, r.cache)

SomeTouching(elements, others, n, el, cache) ==
    IF n > Len(others) THEN [result |-> FALSE, cache |-> cache]
    ELSE SomeTouchingFrom(elements, others, n, el,
            isTouching(elements[others[n]], el, cache))

ConnectivityViolation(id, text) ==
    [elementId |-> id, type |-> "connectivity_error", message |-> text]

\* push the violation `v` whatever the neighbours
PushAlways(r, v, vs) == [violations |-> Append(vs, v), cache |-> r.cache]

\* push the violation `v` unless some neighbour touches
UnlessTouching(r, v, vs) ==
    [violations |-> IF ~r.result THEN Append(vs, v) ELSE vs,
     cache |-> r.cache]

\* Gates -> Ramps
RECURSIVE GatesPass(_, _, _, _, _)
GatesPass(elements, grid, gates, n, st) ==
    IF Evaluated(st) /\ n <= Len(gates)
    THEN GatesPass(elements, grid, gates, n + 1,
            UnlessTouching(
                SomeTouching(elements,
                    Nearby(grid, elements, elements[gates[n]], {RAMP}),
                    1, elements[gates[n]], st.cache),
                ConnectivityViolation(elements[gates[n]].id,
                    elements[gates[n]].type \o " must be adjacent to a Ramp."),
                st.violations))
    ELSE st

\* Ramps -> Roads
RECURSIVE RampsPass(_, _, _, _, _)
RampsPass(elements, grid, ramps, n, st) ==
    IF Evaluated(st) /\ n <= Len(ramps)
    THEN RampsPass(elements, grid, ramps, n + 1,
            UnlessTouching(
                SomeTouching(elements,
                    Nearby(grid, elements, elements[ramps[n]], {ROAD}),
                    1, elements[ramps[n]], st.cache),
                ConnectivityViolation(elements[ramps[n]].id,
                    "Ramp must connect to a Driving Lane."),
                st.violations))
    ELSE st

\* navigables.forEach(el => adj.set(el.id, []))
NewAdj(elements, navigables) ==
    [id \in {elements[navigables[n]].id : n \in 1..Len(navigables)} |-> <<>>]

\* adj.get(a)?.push(b)
AdjPush(adj, a, b) ==
    [k \in DOMAIN adj |-> IF k = a THEN Append(adj[k], b) ELSE adj[k]]

Connect(id1, id2, r, adj) ==
    [adj |-> IF r.result
             THEN AdjPush(AdjPush(adj, id1, id2), id2, id1)
             ELSE adj,
     cache |-> r.cache]

\* the body of potentialNeighbors.forEach(el2 => ...); gs = [adj, cache]
GraphPair(el1, el2, gs) ==
    IF StrLess(el1.id, el2.id)
    THEN Connect(el1.id, el2.id, IntersectCached(el1, el2, gs.cache), gs.adj)
    ELSE gs

RECURSIVE GraphNeighbors(_, _, _, _, _)
GraphNeighbors(elements, i1, neighbors, j, gs) ==
    IF Evaluated(gs) /\ j <= Len(neighbors)
    THEN GraphNeighbors(elements, i1, neighbors, j + 1,
            GraphPair(elements[i1], elements[neighbors[j]], gs))
    ELSE gs

RECURSIVE GraphPass(_, _, _, _, _)
GraphPass(elements, grid, navigables, n, gs) ==
    IF Evaluated(gs) /\ n <= Len(navigables)
    THEN GraphPass(elements, grid, navigables, n + 1,
            GraphNeighbors(elements, navigables[n],
                Nearby(grid, elements, elements[navigables[n]], navigableTypes),
                1, gs))
    ELSE gs

\* layout.elements.find(e => e.id === curr)?.type === ElementType.EXIT
IsExitId(elements, curr) ==
    /\ \E i \in 1..Len(elements) : elements[i].id = curr
    /\ elements[CHOOSE i \in 1..Len(elements) :
                    /\ elements[i].id = curr
                    /\ \A j \in 1..(i - 1) : elements[j].id # curr].type = EXIT

\* adj.get(curr) || []
AdjGet(adj, curr) == IF curr \in DOMAIN adj THEN adj[curr] ELSE <<>>

\* a loop over the neighbours that queues none of them
EnqueueNone(neighbors, n, qv) == qv

\* for (const n of neighbors) ...; qv = [queue, visited]
RECURSIVE Enqueue(_, _, _)
Enqueue(neighbors, n, qv) ==
    IF Evaluated(qv) /\ n <= Len(neighbors)
    THEN Enqueue(neighbors, n + 1,
            IF neighbors[n] \in qv.visited THEN qv
            ELSE [queue |-> Append(qv.queue, neighbors[n]),
                  visited |-> qv.visited \cup {neighbors[n]}])
    ELSE qv

\* the while loop: the value of foundExit when it ends
RECURSIVE Search(_, _, _)
Search(elements, adj, qv) ==
    IF qv.queue = <<>> THEN FALSE
    ELSE IF IsExitId(elements, Head(qv.queue)) THEN TRUE
    ELSE Search(elements, adj,
            Enqueue(AdjGet(adj, Head(qv.queue)), 1,
                    [queue |-> Tail(qv.queue), visited |-> qv.visited]))

foundExit(elements, adj, ent) ==
    Search(elements, adj, [queue |-> <<ent.id>>, visited |-> {ent.id}])

\* entrances.forEach(ent => ...)
RECURSIVE EntrancesPass(_, _, _, _, _, _)
EntrancesPass(elements, adj, entrances, exits, n, vs) ==
    IF Evaluated(vs) /\ n <= Len(entrances)
    THEN EntrancesPass(elements, adj, entrances, exits, n + 1,
            IF ~foundExit(elements, adj, elements[entrances[n]]) /\ Len(exits) > 0
            THEN Append(vs, ConnectivityViolation(elements[entrances[n]].id,
                    "No drivable path exists from this Entrance to any Exit."))
            ELSE vs)
    ELSE vs

Reachability(elements, gs, vs) ==
    [violations |-> EntrancesPass(elements, gs.adj,
                        OfTypes(elements, Indices(elements), {ENTRANCE}),
                        OfTypes(elements, Indices(elements), {EXIT}), 1, vs),
     cache |-> gs.cache]

\* Connectivity (Graph)
ConnectivityGraph(elements, grid, navigables, st) ==
    IF Len(navigables) > 0
    THEN Reachability(elements,
            GraphPass(elements, grid, navigables, 1,
                      [adj |-> NewAdj(elements, navigables), cache |-> st.cache]),
            st.violations)
    ELSE st

MissingEntrance(elements, vs) ==
    IF Len(OfTypes(elements, Indices(elements), {ENTRANCE})) < 1
    THEN Append(vs, ConnectivityViolation("global", "Must have at least one Entrance."))
    ELSE vs

MissingExit(elements, vs) ==
    IF Len(OfTypes(elements, Indices(elements), {EXIT})) < 1
    THEN Append(vs, ConnectivityViolation("global", "Must have at least one Exit."))
    ELSE vs

\* Global Checks
GlobalChecks(elements, st) ==
    [violations |-> MissingExit(elements, MissingEntrance(elements, st.violations)),
     cache |-> st.cache]

\* the passes in program order, on a layout that has elements
RunPasses(lay, elements, grid, cache) ==
    GlobalChecks(elements,
      ConnectivityGraph(elements, grid,
        OfTypes(elements, Indices(elements), navigableTypes),
        RampsPass(elements, grid, OfTypes(elements, Indices(elements), {RAMP}), 1,
          GatesPass(elements, grid,
            OfTypes(elements, Indices(elements), {ENTRANCE, EXIT}), 1,
            PlacementPass(elements, grid, 1,
              OverlapPass(elements, grid,
                OfTypes(elements, Indices(elements), solidTypes), 1,
                BoundsPass(lay, 1, [violations |-> <<>>, cache |-> cache])))))))

\* a guard that also returns early on an empty element list
NoElementsOrEmpty(lay) ==
    IF "elements" \notin DOMAIN lay THEN TRUE ELSE lay.elements = <<>>

\* !layout || !layout.elements
NoElements(lay) == "elements" \notin DOMAIN lay

\* validateLayout(layout) against the module cache `cache`:
\* [the violations returned, the cache left]
validateLayout(lay, cache) ==
    IF NoElements(lay) THEN [violations |-> <<>>, cache |-> cache]
    ELSE RunPasses(lay, lay.elements, BuildGrid(lay.elements), cache)

---------------------------------------------------------------------------
(* Inputs *)

El(id, type, x, y, w, h, r) ==
    [id |-> id, type |-> type, x |-> x, y |-> y,
     width |-> w, height |-> h, rotation |-> r]

\* the gate / ramp / road chain of the connectivity scenarios
ScnEntrance == El("a", ENTRANCE, 0, 0, 40, 20, 0)
ScnRamp == El("b", RAMP, 0, 20, 40, 60, 0)
ScnRoad == El("c", ROAD, 0, 80, 400, 60, 0)
ScnExit == El("d", EXIT, 360, 140, 40, 20, 0)
ScnRoadAway == El("c", ROAD, 500, 80, 400, 60, 0)

ScenarioPool == {ScnEntrance, ScnRamp, ScnRoad, ScnExit, ScnRoadAway}

\* two stalls sharing the edge x = 110, and a third across both
StallLeft == El("a", PARKING_SPACE, 100, 0, 10, 20, 0)
StallRight == El("b", PARKING_SPACE, 110, 0, 10, 20, 0)
StallAcross == El("c", PARKING_SPACE, 105, 5, 10, 20, 0)
\* unrotated box inside the canvas, rotated corners at y = -45
WallTurned == El("c", WALL, 0, 0, 100, 10, 90)
\* unrotated box across the right border; the quarter turn brings it inside
PillarFlat == El("d", PILLAR, 770, 100, 40, 4, 0)
PillarTurned == El("d", PILLAR, 770, 100, 40, 4, 90)
\* unrotated box across the left border; the quarter turn brings it inside,
\* onto [0, 20] x [0, 40], its left and top edges on the border
PillarOnBorder == El("f", PILLAR, -10, 10, 40, 20, 90)
\* the turned wall reaches down to y = 182.5 and crosses the pillar below it
WallLong == El("a", WALL, 10, 90, 180, 5, 90)
PillarBelow == El("global", PILLAR, 95, 150, 10, 10, 0)
\* a ramp that carries the id the global checks report under
RampNamedGlobal == El("global", RAMP, 0, 20, 40, 60, 0)

ElementPool ==
    {El("e", ENTRANCE, 0, 0, 40, 20, 0), El("10", RAMP, 0, 20, 40, 60, 0),
     El("9", ROAD, 0, 80, 400, 60, 0), El("b", EXIT, 360, 140, 40, 20, 0),
     StallLeft, StallRight, StallAcross, WallTurned,
     PillarFlat, PillarTurned, PillarOnBorder, WallLong, PillarBelow,
     RampNamedGlobal}

CachePool == {PillarFlat, PillarTurned, El("a", PARKING_SPACE, 780, 95, 10, 20, 0)}

\* validateLayout(null)
NullLayout == EmptyMap
\* a layout object without an elements list
ElementlessLayout == [width |-> CanvasWidth, height |-> CanvasHeight]
EmptyLayout ==
    [width |-> CanvasWidth, height |-> CanvasHeight, elements |-> <<>>]

---------------------------------------------------------------------------
(* The caller: it holds a layout, edits it, and calls validateLayout.      *)

\* no call of the function has begun
NotCalled == [pc |-> "idle"]

\* the module is loaded, no layout has been validated
InitGeometry ==
    /\ layout = NullLayout
    /\ cornerCache = EmptyMap
    /\ violations = <<>>
    /\ validated = FALSE
    /\ calls = 0
    /\ cacheAtCall = EmptyMap

Init ==
    /\ InitGeometry
    /\ boxCall = NotCalled
    /\ fix = NotCalled
    /\ retry = NotCalled

\* the caller takes up a layout without elements
LoadLayout(lay) ==
    /\ ~validated
    /\ layout # lay
    /\ IF NoElements(layout) THEN TRUE ELSE layout.elements = <<>>
    /\ layout' = lay
    /\ validated' = FALSE
    /\ UNCHANGED <<cornerCache, violations, calls, cacheAtCall>>
    /\ UNCHANGED otherCalls

\* the caller appends an element to the layout it is building
AddElement(e, max) ==
    /\ ~validated
    /\ ~NoElements(layout)
    /\ Len(layout.elements) < max
    /\ layout' = [layout EXCEPT !.elements = Append(@, e)]
    /\ validated' = FALSE
    /\ UNCHANGED <<cornerCache, violations, calls, cacheAtCall>>
    /\ UNCHANGED otherCalls

\* a call that consumes the caller's element list while it walks it
ValidateDrainingElements ==
    /\ ~validated
    /\ calls < MaxCalls
    /\ violations' = validateLayout(layout, cornerCache).violations
    /\ cornerCache' = validateLayout(layout, cornerCache).cache
    /\ cacheAtCall' = cornerCache
    /\ validated' = TRUE
    /\ calls' = calls + 1
    /\ layout' = IF NoElements(layout) THEN layout
                 ELSE [layout EXCEPT !.elements = <<>>]
    /\ UNCHANGED otherCalls

\* const violations = validateLayout(layout)
Validate ==
    /\ ~validated
    /\ calls < MaxCalls
    /\ violations' = validateLayout(layout, cornerCache).violations
    /\ cornerCache' = validateLayout(layout, cornerCache).cache
    /\ cacheAtCall' = cornerCache
    /\ validated' = TRUE
    /\ calls' = calls + 1
    /\ UNCHANGED layout
    /\ UNCHANGED otherCalls

\* the caller starts over with an empty layout; the module cache stays
NextLayout ==
    /\ validated
    /\ calls < MaxCalls
    /\ layout' = EmptyLayout
    /\ validated' = FALSE
    /\ UNCHANGED <<cornerCache, violations, calls, cacheAtCall>>
    /\ UNCHANGED otherCalls

Next ==
    \/ \E lay \in {NullLayout, ElementlessLayout, EmptyLayout} : LoadLayout(lay)
    \/ \E e \in ElementPool : AddElement(e, MaxElements)
    \/ Validate

Spec == Init /\ [][Next]_vars

NextScenario ==
    \/ LoadLayout(EmptyLayout)
    \/ \E e \in ScenarioPool : AddElement(e, ScenarioSize)
    \/ Validate

SpecScenario == Init /\ [][NextScenario]_vars

NextCache ==
    \/ LoadLayout(EmptyLayout)
    \/ \E e \in CachePool : AddElement(e, CacheElements)
    \/ Validate
    \/ NextLayout

SpecCache == Init /\ [][NextCache]_vars

---------------------------------------------------------------------------
(* Vocabulary of the properties *)

\* the element list validateLayout works on
Elements == IF NoElements(layout) THEN <<>> ELSE layout.elements

ViolationsOfType(vs, t) == SelectSeq(vs, LAMBDA v : v.type = t)

\* how many members of the sequence s equal v
Occurrences(s, v) == Cardinality({n \in 1..Len(s) : s[n] = v})

SameMultiset(s, t) ==
    /\ Len(s) = Len(t)
    /\ \A v \in SeqToSet(s) \cup SeqToSet(t) : Occurrences(s, v) = Occurrences(t, v)

UniqueIds(elements) ==
    \A i, j \in 1..Len(elements) : elements[i].id = elements[j].id => i = j

Permutations(n) ==
    {p \in [1..n -> 1..n] : \A i, j \in 1..n : p[i] = p[j] => i = j}

Permuted(lay, p) ==
    [lay EXCEPT !.elements = [n \in 1..Len(lay.elements) |-> lay.elements[p[n]]]]

\* the layout holds exactly the elements of S, once each, in some order
HoldsExactly(S) ==
    /\ ~NoElements(layout)
    /\ Len(layout.elements) = Cardinality(S)
    /\ SeqToSet(layout.elements) = S

\* twice the bounds of the rectangle of el turned about its centre by a
\* whole number of quarter turns: an odd number swaps its two extents
TurnedBox(el) ==
    IF RotationOrZero(el) % 180 = 0
    THEN [left |-> 2 * el.x, right |-> 2 * (el.x + el.width),
          top |-> 2 * el.y, bottom |-> 2 * (el.y + el.height)]
    ELSE [left |-> 2 * el.x + el.width - el.height,
          right |-> 2 * el.x + el.width + el.height,
          top |-> 2 * el.y + el.height - el.width,
          bottom |-> 2 * el.y + el.height + el.width]

BoxOutside(box, lay) ==
    \/ box.left < 0
    \/ box.right > 2 * lay.width
    \/ box.top < 0
    \/ box.bottom > 2 * lay.height

\* a corner of the rotated rectangle of el lies strictly outside the layout;
\* el is turned by quarter turns, as all elements of the pool are
TrulyOutside(el) == BoxOutside(TurnedBox(el), layout)

\* the rotated rectangles of a and b, recomputed, have a point in common
TrulyOverlapping(a, b) ==
    isPolygonsIntersecting(ComputeCorners(a), ComputeCorners(b))

\* the intervals [lo1, lo1 + len1] and [lo2, lo2 + len2] overlap in a
\* stretch of positive length
ProperlyMeet(lo1, len1, lo2, len2) ==
    Min(lo1 + len1, lo2 + len2) > Max(lo1, lo2)

\* the unrotated rectangles of a and b meet in a segment of one edge
ShareOneEdge(a, b) ==
    \/ /\ a.x + a.width = b.x \/ b.x + b.width = a.x
       /\ ProperlyMeet(a.y, a.height, b.y, b.height)
    \/ /\ a.y + a.height = b.y \/ b.y + b.height = a.y
       /\ ProperlyMeet(a.x, a.width, b.x, b.width)

AxisAligned(el) == RotationOrZero(el) = 0

\* an overlap violation for the pair a, b, in either role
OverlapReported(a, b) ==
    \E n \in 1..Len(violations) :
        /\ violations[n].type = "overlap"
        /\ {violations[n].elementId, violations[n].targetId} = {a.id, b.id}

---------------------------------------------------------------------------
(* Properties *)

\* C1: validateLayout is deterministic.  The violations a call returned are
\* the ones a call on the same layout returns from an empty corner cache and
\* from the cache as the calls so far have left it, in the same order; and
\* every entry the cache holds for an element is exactly the corners
\* recomputed from its x, y, width, height and rotation.
C1_DeterministicWithWarmCache ==
    validated =>
        /\ violations = validateLayout(layout, EmptyMap).violations
        /\ violations = validateLayout(layout, cornerCache).violations
        /\ \A el \in CachePool :
              cacheKey(el) \in DOMAIN cornerCache
                  => cornerCache[cacheKey(el)] = ComputeCorners(el)

\* a second call that found the corners of both turns of the pillar cached
\* and reported the flat one out of bounds from a cache hit
C1_CacheHitOnSecondCall ==
    /\ validated
    /\ calls > 1
    /\ {cacheKey(PillarFlat), cacheKey(PillarTurned)} \subseteq DOMAIN cacheAtCall
    /\ InSeq(PillarFlat, Elements)
    /\ InSeq(OutOfBoundsViolation(PillarFlat), violations)

\* C2: for a layout with unique element ids, every permutation of
\* layout.elements yields the same multiset of violations; an overlap of a
\* pair keeps its elementId and targetId when the two swap positions.
C2_OrderOfElementsIrrelevant ==
    (validated /\ ~NoElements(layout) /\ UniqueIds(Elements)) =>
        \A p \in Permutations(Len(Elements)) :
            SameMultiset(validateLayout(Permuted(layout, p), EmptyMap).violations,
                         violations)

\* an overlap was reported whose elementId belongs to the later element
C2_OverlapAgainstListOrder ==
    /\ validated
    /\ UniqueIds(Elements)
    /\ \E n \in 1..Len(violations) : \E i, j \in 1..Len(Elements) :
          /\ violations[n].type = "overlap"
          /\ j < i
          /\ Elements[i].id = violations[n].elementId
          /\ Elements[j].id = violations[n].targetId

\* C3: no violation has elementId equal to targetId, duplicate ids included.
C3_NoSelfViolation ==
    \A n \in 1..Len(violations) :
        "targetId" \in DOMAIN violations[n]
            => violations[n].elementId # violations[n].targetId

\* two elements with one id cross each other, and an overlap was reported
C3_DuplicateIdsCrossing ==
    /\ validated
    /\ \E i, j \in 1..Len(Elements) :
          /\ i # j
          /\ Elements[i].id = Elements[j].id
          /\ TrulyOverlapping(Elements[i], Elements[j])
    /\ \E n \in 1..Len(violations) : violations[n].type = "overlap"

\* C4: two axis-aligned solid elements that are no rule-exempt pair and
\* whose rectangles share exactly one edge never produce an overlap
\* violation for that pair.
C4_SharedEdgeIsNoOverlap ==
    (validated /\ UniqueIds(Elements)) =>
        \A i, j \in 1..Len(Elements) :
            ( /\ i # j
              /\ Elements[i].type \in solidTypes
              /\ Elements[j].type \in solidTypes
              /\ AxisAligned(Elements[i])
              /\ AxisAligned(Elements[j])
              /\ ~PermittedOverlap(Elements[i], Elements[j])
              /\ ShareOneEdge(Elements[i], Elements[j]) )
            => ~OverlapReported(Elements[i], Elements[j])

\* C5: an element with a rotated corner strictly outside the layout always
\* yields an out_of_bounds violation naming it.
C5_OutsideAlwaysReported ==
    validated =>
        \A n \in 1..Len(Elements) :
            TrulyOutside(Elements[n])
                => \E m \in 1..Len(violations) :
                      /\ violations[m].type = "out_of_bounds"
                      /\ violations[m].elementId = Elements[n].id

\* C6: an element whose rotated corners all lie inside the layout yields no
\* out_of_bounds violation and any element yields at most one: the
\* out_of_bounds violations naming an id are no more than the elements of
\* that id with a corner outside; and none of them carries a targetId.
C6_InsideNeverReported ==
    validated =>
        \A m \in 1..Len(violations) :
            violations[m].type = "out_of_bounds" =>
                /\ "targetId" \notin DOMAIN violations[m]
                /\ Cardinality({k \in 1..Len(violations) :
                        /\ violations[k].type = "out_of_bounds"
                        /\ violations[k].elementId = violations[m].elementId})
                     <= Cardinality({n \in 1..Len(Elements) :
                        /\ Elements[n].id = violations[m].elementId
                        /\ TrulyOutside(Elements[n])})

ConnectedScenario == {ScnEntrance, ScnRamp, ScnRoad, ScnExit}
DisconnectedScenario == {ScnEntrance, ScnRamp, ScnRoadAway, ScnExit}

ExitNotAdjacent ==
    [elementId |-> ScnExit.id, type |-> "connectivity_error",
     message |-> EXIT \o " must be adjacent to a Ramp."]
RampNotConnected ==
    [elementId |-> ScnRamp.id, type |-> "connectivity_error",
     message |-> "Ramp must connect to a Driving Lane."]
EntranceWithoutPath ==
    [elementId |-> ScnEntrance.id, type |-> "connectivity_error",
     message |-> "No drivable path exists from this Entrance to any Exit."]

\* C7 as stated: the connected scenario yields zero connectivity_error
\* violations.
C7_ScenarioWithoutConnectivityError ==
    (validated /\ HoldsExactly(ConnectedScenario)) =>
        ViolationsOfType(violations, "connectivity_error") = <<>>

\* C7, amended: the connected scenario yields exactly one
\* connectivity_error, for the exit, which touches the road but no ramp;
\* none for the entrance or the ramp, and none for a missing path.
C7_ScenarioExitNotAdjacent ==
    (validated /\ HoldsExactly(ConnectedScenario)) =>
        ViolationsOfType(violations, "connectivity_error") = <<ExitNotAdjacent>>

C7_ScenarioValidated == validated /\ HoldsExactly(ConnectedScenario)

\* C8 as stated: with the road moved to x = 500 the connectivity_error
\* violations are exactly one for the ramp and one for the entrance.
C8_DisconnectedRampAndEntranceOnly ==
    (validated /\ HoldsExactly(DisconnectedScenario)) =>
        SameMultiset(ViolationsOfType(violations, "connectivity_error"),
                     <<RampNotConnected, EntranceWithoutPath>>)

\* C8, amended: with the road moved to x = 500 the connectivity_error
\* violations are one for the exit (no ramp adjacent), one for the ramp (no
\* road touching) and one for the entrance (no path to an exit), in this
\* order.
C8_DisconnectedExitRampEntrance ==
    (validated /\ HoldsExactly(DisconnectedScenario)) =>
        ViolationsOfType(violations, "connectivity_error")
            = <<ExitNotAdjacent, RampNotConnected, EntranceWithoutPath>>

C8_DisconnectedValidated == validated /\ HoldsExactly(DisconnectedScenario)

\* C9 as stated: no violations for a null layout and for a layout whose
\* element collection is missing or empty.
C9_NoViolationsWithoutElements ==
    (validated /\ Elements = <<>>) => violations = <<>>

\* C9, amended: no violations for a null layout and for a layout whose
\* element collection is missing; for an empty element collection exactly
\* the two global connectivity_error violations, entrance first.
C9_EmptyListGetsGlobalErrors ==
    validated =>
        IF "elements" \notin DOMAIN layout
        THEN violations = <<>>
        ELSE layout.elements = <<>> =>
              violations =
                << [elementId |-> "global", type |-> "connectivity_error",
                    message |-> "Must have at least one Entrance."],
                   [elementId |-> "global", type |-> "connectivity_error",
                    message |-> "Must have at least one Exit."] >>

C9_EmptyListValidated ==
    validated /\ layout = EmptyLayout /\ Len(violations) = 2

\* C10: any two elements whose true rotated geometry overlaps are in each
\* other's candidate set of the spatial grid.
C10_CandidatesCoverOverlaps ==
    \A i, j \in 1..Len(Elements) :
        (Elements[i].id # Elements[j].id
            /\ TrulyOverlapping(Elements[i], Elements[j]))
        => InSeq(j, getPotentialCollisions(BuildGrid(Elements), Elements,
                                           Elements[i]))

\* the closed unrotated boxes of a and b have a point in common
BoxesMeet(a, b) ==
    /\ Max(a.x, b.x) <= Min(a.x + a.width, b.x + b.width)
    /\ Max(a.y, b.y) <= Min(a.y + a.height, b.y + b.height)

\* grid.getPotentialCollisions(layout.elements[i]) on the grid of the layout
CandidatesOf(i) ==
    getPotentialCollisions(BuildGrid(Elements), Elements, Elements[i])

\* C11: two elements with distinct ids whose unrotated boxes intersect or
\* touch are in each other's candidate set; a candidate set never holds the
\* querying element and holds no element twice.
C11_CandidatesCoverBoxes ==
    \A i \in 1..Len(Elements) :
        /\ \A j \in 1..Len(Elements) :
              (Elements[i].id # Elements[j].id /\ BoxesMeet(Elements[i], Elements[j]))
                  => InSeq(j, CandidatesOf(i))
        /\ ~InSeq(i, CandidatesOf(i))
        /\ \A m, n \in 1..Len(CandidatesOf(i)) :
              CandidatesOf(i)[m] = CandidatesOf(i)[n] => m = n

\* two boxes that only touch, on a cell border, next to a pair of elements
\* that share two cells
C11_TouchOnCellBorder ==
    /\ \E i, j \in 1..Len(Elements) :
          /\ Elements[i].id # Elements[j].id
          /\ Elements[i].x + Elements[i].width = Elements[j].x
          /\ Elements[j].x % CellSize = 0
          /\ BoxesMeet(Elements[i], Elements[j])
    /\ \E i, j \in 1..Len(Elements) :
          /\ Elements[i].id # Elements[j].id
          /\ Cardinality(SeqToSet(getKeysForElement(Elements[i]))
                            \cap SeqToSet(getKeysForElement(Elements[j]))) > 1

---------------------------------------------------------------------------
(* Layouts for the rule table, the placement pass and the distance filter *)

\* two walls on one box, and a stall on a ground patch of its own size
WallTwinA == El("a", WALL, 200, 200, 50, 10, 0)
WallTwinB == El("b", WALL, 200, 200, 50, 10, 0)
StallOnGround == El("c", PARKING_SPACE, 300, 200, 10, 20, 0)
GroundUnder == El("d", GROUND, 300, 200, 10, 20, 0)
\* a sign far from everything, and a road that would carry it
Sign == El("e", GUIDANCE_SIGN, 500, 500, 10, 10, 0)
SignRoad == El("9", ROAD, 480, 490, 100, 30, 0)
\* a pillar inside the far corner of a staircase
Staircase == El("10", STAIRCASE, 0, 0, 90, 90, 0)
CornerPillar == El("c", PILLAR, 85, 85, 4, 4, 0)

RulePool ==
    {WallTwinA, WallTwinB, StallOnGround, GroundUnder, Sign, SignRoad,
     Staircase, CornerPillar}

NextRules ==
    \/ LoadLayout(EmptyLayout)
    \/ \E e \in RulePool : AddElement(e, RuleElements)
    \/ Validate

SpecRules == Init /\ [][NextRules]_vars

\* a and b have the same unrotated box
Coincident(a, b) ==
    a.x = b.x /\ a.y = b.y /\ a.width = b.width /\ a.height = b.height

\* C12: two walls with coincident boxes never produce an overlap
\* violation, nor do a parking space and a ground element with coincident
\* boxes.
C12_CoincidentExemptPairs ==
    validated =>
        \A i, j \in 1..Len(Elements) :
            ( /\ i # j
              /\ Elements[i].id # Elements[j].id
              /\ Coincident(Elements[i], Elements[j])
              /\ \/ Elements[i].type = WALL /\ Elements[j].type = WALL
                 \/ Elements[i].type = PARKING_SPACE /\ Elements[j].type = GROUND )
            => ~OverlapReported(Elements[i], Elements[j])

\* both twin pairs lie in one validated layout
C12_BothTwinPairsValidated ==
    validated /\ HoldsExactly({WallTwinA, WallTwinB, StallOnGround, GroundUnder})

---------------------------------------------------------------------------
(* Global checks and placement *)

\* the connectivity_error violations whose elementId is "global"
GlobalErrors ==
    SelectSeq(violations,
        LAMBDA v : v.type = "connectivity_error" /\ v.elementId = "global")

HasType(t) == \E n \in 1..Len(Elements) : Elements[n].type = t

\* C13: a layout without entrance and without exit yields exactly two
\* connectivity_error violations with elementId "global", one for the
\* missing entrance and one for the missing exit; a layout with an entrance
\* and an exit yields none with elementId "global".
C13_GlobalCardinality ==
    validated =>
        /\ (~HasType(ENTRANCE) /\ ~HasType(EXIT)) =>
              /\ Len(GlobalErrors) = 2
              /\ InSeq(ConnectivityViolation("global",
                      "Must have at least one Entrance."), GlobalErrors)
              /\ InSeq(ConnectivityViolation("global",
                      "Must have at least one Exit."), GlobalErrors)
        /\ (HasType(ENTRANCE) /\ HasType(EXIT)) => GlobalErrors = <<>>

\* the layout of the one ramp whose id is "global": the ramp's own
\* adjacency error stands beside the two errors of the global checks
C13_RampNamedGlobalValidated ==
    /\ validated
    /\ HoldsExactly({RampNamedGlobal})
    /\ GlobalErrors =
          << ConnectivityViolation("global", "Ramp must connect to a Driving Lane."),
             ConnectivityViolation("global", "Must have at least one Entrance."),
             ConnectivityViolation("global", "Must have at least one Exit.") >>

\* C14: a layout that holds the guidance sign at (500,500,10,10) and no
\* road yields exactly one placement_error, and it names the sign.
C14_SignWithoutRoad ==
    ( /\ validated
      /\ Cardinality({n \in 1..Len(Elements) : Elements[n] = Sign}) = 1
      /\ ~HasType(ROAD) )
    => ViolationsOfType(violations, "placement_error") =
          << [elementId |-> Sign.id, type |-> "placement_error",
              message |-> GUIDANCE_SIGN \o " must be placed on a Driving Lane."] >>

\* the sign validated among roadless company
C14_SignAmongOthers ==
    /\ validated
    /\ Cardinality({n \in 1..Len(Elements) : Elements[n] = Sign}) = 1
    /\ ~HasType(ROAD)
    /\ HasType(STAIRCASE)
    /\ Len(ViolationsOfType(violations, "placement_error")) = 1

---------------------------------------------------------------------------
(* Frame *)

\* C15: validateLayout never mutates its input: across a call the layout's
\* width, height and element list, and every field of every element, are
\* what they were.
C15_InputUnchanged == [][calls' # calls => layout' = layout]_vars

\* a call has gone over a layout of several elements, rotated ones among
\* them, and has filled the grid and the corner cache from it
C15_CallOnSeveralElements ==
    /\ validated
    /\ Len(Elements) > 1
    /\ \E n \in 1..Len(Elements) : ~AxisAligned(Elements[n])
    /\ cornerCache # EmptyMap

---------------------------------------------------------------------------
(* A caller that keeps validating elements the corner cache has not seen:  *)
(* first whole generated layouts of BatchSize elements, then layouts of    *)
(* one element.  Every element lies left of the canvas, in a grid cell of  *)
(* its own, so that the bounds pass asks for its corners.                  *)

FreshElement(n) == El("d", PILLAR, 0 - (CellSize * n), 0, 10, 10, 0)

\* the elements number from + 1 .. from + count
FreshLayout(from, count) ==
    [EmptyLayout EXCEPT !.elements = [n \in 1..count |-> FreshElement(from + n)]]

\* how many fresh elements the caller has used up
Seen ==
    IF Elements = <<>> THEN 0
    ELSE (0 - Elements[Len(Elements)].x) \div CellSize

\* validateLayout(layout) on a layout of `count` elements not seen before
ValidateFresh(count) ==
    /\ layout' = FreshLayout(Seen, count)
    /\ violations' = validateLayout(FreshLayout(Seen, count), cornerCache).violations
    /\ cornerCache' = validateLayout(FreshLayout(Seen, count), cornerCache).cache
    /\ cacheAtCall' = cornerCache
    /\ validated' = TRUE
    /\ calls' = calls + 1
    /\ UNCHANGED otherCalls

\* a generated layout; all calls before it were on generated layouts too
ValidateGenerated ==
    /\ calls < MaxBulk
    /\ Seen = calls * BatchSize
    /\ ValidateFresh(BatchSize)

\* a layout of one element
ValidateSingle ==
    /\ calls < MaxFill
    /\ ValidateFresh(1)

NextFill == ValidateGenerated \/ ValidateSingle

SpecFill == Init /\ [][NextFill]_vars

\* C16: the corner cache never grows without bound: whatever calls were
\* made, over however many distinct elements, it holds at most its capacity
\* plus the one entry set after the overflow check.
C16_CacheBounded == Cardinality(DOMAIN cornerCache) <= CacheLimit + 1

\* the cache is as full as it gets; the next new element clears it
C16_CacheFull ==
    /\ Cardinality(DOMAIN cornerCache) = CacheLimit + 1
    /\ Seen = CacheLimit + 1
    /\ cacheKey(FreshElement(Seen)) \in DOMAIN cornerCache

---------------------------------------------------------------------------
(* Malformed elements: no rotation field, no extent *)

\* an element record whose rotation is undefined
Bare(id, type, x, y, w, h) ==
    [id |-> id, type |-> type, x |-> x, y |-> y, width |-> w, height |-> h]

\* across the right border as it lies; a quarter turn would bring it inside
BarePillar == Bare("d", PILLAR, 770, 100, 40, 4)
\* crosses the pillar
BareStall == Bare("a", PARKING_SPACE, 780, 95, 10, 20)
\* a point inside the stall
ZeroPillar == Bare("b", PILLAR, 785, 100, 0, 0)
\* a segment down through the pillar
ZeroWall == El("c", WALL, 790, 95, 0, 30, 0)
ShapeRoad == El("9", ROAD, 700, 90, 90, 30, 0)

ShapePool == {BarePillar, BareStall, ZeroPillar, ZeroWall, ShapeRoad}

NextShapes ==
    \/ LoadLayout(EmptyLayout)
    \/ \E e \in ShapePool : AddElement(e, ShapeElements)
    \/ Validate

SpecShapes == Init /\ [][NextShapes]_vars

\* el with rotation 0 written out where it has none
WithRotation(el) ==
    IF "rotation" \in DOMAIN el THEN el
    ELSE El(el.id, el.type, el.x, el.y, el.width, el.height, 0)

Defaulted(lay) ==
    [lay EXCEPT !.elements = [n \in 1..Len(lay.elements) |-> WithRotation(lay.elements[n])]]

\* C17: validateLayout returns a list of violations (it does not throw) on
\* layouts holding elements without rotation and elements of zero width or
\* height, and the violations of a layout whose elements lack a rotation are
\* identical to those of the same layout with rotation 0 written out.
C17_MissingRotationIsZero ==
    validated /\ ~NoElements(layout) =>
        /\ DOMAIN violations = 1..Len(violations)
        /\ violations = validateLayout(Defaulted(layout), EmptyMap).violations

\* a call on a pillar without rotation lying across the border, together
\* with the zero-size pillar and the zero-width wall
C17_BareAndZeroValidated ==
    /\ validated
    /\ HoldsExactly({BarePillar, ZeroPillar, ZeroWall})
    /\ \E n \in 1..Len(violations) :
          violations[n].type = "out_of_bounds" /\ violations[n].elementId = "d"

---------------------------------------------------------------------------
(* A square turned by an eighth of a turn *)

\* centre (25, 25); turned, its corners lie 5 sqrt 2 left, right, above and
\* below the centre
Diamond == El("a", PILLAR, 20, 20, 10, 10, 45)
\* the same square as it lies without the turn
DiamondUnturned == El("a", PILLAR, 20, 20, 10, 10, 0)
\* holds the right corner (25 + 5 sqrt 2, 25) of the diamond
AtTurnedCorner == El("b", PILLAR, 32, 20, 10, 10, 0)
\* begins at the corner (30, 30) of the unrotated box
AtBoxCorner == El("c", PILLAR, 30, 30, 10, 10, 0)
\* reaches over the lower right edge of the diamond
OverTurnedEdge == El("d", PILLAR, 28, 28, 10, 10, 0)
\* just right of the right corner
PastTurnedCorner == El("e", PILLAR, 33, 20, 10, 10, 0)

TurnPool ==
    {Diamond, DiamondUnturned, AtTurnedCorner, AtBoxCorner, OverTurnedEdge,
     PastTurnedCorner}

NextTurn ==
    \/ LoadLayout(EmptyLayout)
    \/ \E e \in TurnPool : AddElement(e, TurnElements)
    \/ Validate

SpecTurn == Init /\ [][NextTurn]_vars

\* the distance from c to the interval [lo, lo + len], 0 inside it
GapTo(c, lo, len) == Max(0, Max(lo - c, c - (lo + len)))

\* twice the least |x - cx| + |y - cy| over the points (x, y) of the
\* unrotated box of b, (cx, cy) the centre of a
TaxiGap2(a, b) ==
    GapTo(2 * a.x + a.width, 2 * b.x, 2 * b.width)
        + GapTo(2 * a.y + a.height, 2 * b.y, 2 * b.height)

\* a square a turned by 45 degrees is the set |x - cx| + |y - cy| <=
\* width * sqrt(2) / 2; it meets the unrotated box of b iff the box comes
\* that close to the centre
DiamondMeets(a, b) == TaxiGap2(a, b) * TaxiGap2(a, b) <= 2 * a.width * a.width

\* |u - v| < 2^-40
Near(u, v) ==
    /\ Less(Minus(u, v), Double(FALSE, <<1>>, -40))
    /\ Less(Minus(v, u), Double(FALSE, <<1>>, -40))

\* (p.x - cx)^2 + (p.y - cy)^2, (cx, cy) the centre of a
CentreDistSq(p, a) ==
    Plus(Times(Minus(p.x, Centre(a.x, a.width)), Minus(p.x, Centre(a.x, a.width))),
         Times(Minus(p.y, Centre(a.y, a.height)), Minus(p.y, Centre(a.y, a.height))))

\* p is, to 2^-40, a corner of the square a turned by 45 degrees: a point
\* at distance width * sqrt(2) / 2 from the centre, level with it or
\* straight above or below it
DiamondCorner(p, a) ==
    /\ Near(CentreDistSq(p, a), Halved(Num(a.width * a.width)))
    /\ Near(p.x, Centre(a.x, a.width)) \/ Near(p.y, Centre(a.y, a.height))

\* the list holds four different corners of the diamond of a
DiamondCorners(corners, a) ==
    /\ Len(corners) = 4
    /\ \A n \in 1..4 : DiamondCorner(corners[n], a)
    /\ \A n, k \in 1..4 :
          n # k => ~(Near(corners[n].x, corners[k].x) /\ Near(corners[n].y, corners[k].y))

\* C18: the corners the cache holds for the 10x10 square rotated by 45
\* degrees are, to 2^-40, the four points at distance 10 * sqrt(2) / 2 from
\* its centre along the axes, and the square is reported as overlapping an unrotated
\* square exactly when that square reaches into the diamond: one holding
\* its rotated corner is reported, one that begins at the corner of its
\* unrotated bounding box is not.
C18_TurnedSquare ==
    validated /\ UniqueIds(Elements) /\ InSeq(Diamond, Elements) =>
        /\ cacheKey(Diamond) \in DOMAIN cornerCache =>
              DiamondCorners(cornerCache[cacheKey(Diamond)], Diamond)
        /\ \A n \in 1..Len(Elements) :
              Elements[n] # Diamond =>
                  (OverlapReported(Diamond, Elements[n])
                      <=> DiamondMeets(Diamond, Elements[n]))
        /\ InSeq(AtTurnedCorner, Elements) => OverlapReported(Diamond, AtTurnedCorner)
        /\ InSeq(AtBoxCorner, Elements) => ~OverlapReported(Diamond, AtBoxCorner)

\* the diamond validated together with the square at its rotated corner
\* and the square at the corner of its bounding box
C18_DiamondBetweenSquares ==
    /\ validated
    /\ HoldsExactly({Diamond, AtTurnedCorner, AtBoxCorner})
    /\ cacheKey(Diamond) \in DOMAIN cornerCache
    /\ OverlapReported(Diamond, AtTurnedCorner)
    /\ ~OverlapReported(Diamond, AtBoxCorner)

---------------------------------------------------------------------------
(* Gates, ramps and roads set flush against one another *)

\* the entrance sits on top of the ramp, the exit against its right side,
\* the road under it; the edges lie on the grid lines x = 100 and beside them
FlushEntrance == El("a", ENTRANCE, 100, 100, 40, 20, 0)
FlushRamp == El("b", RAMP, 100, 120, 40, 60, 0)
FlushExit == El("d", EXIT, 140, 120, 20, 40, 0)
FlushRoad == El("c", ROAD, 60, 180, 200, 30, 0)
\* a ramp and an exit that touch nothing
LoneRamp == El("e", RAMP, 300, 300, 40, 60, 0)
LoneExit == El("9", EXIT, 500, 500, 40, 20, 0)
\* a ramp turned by half a turn onto its own box [0, 40] x [20, 80], and an
\* entrance whose left edge lies on the upper third of the ramp's right edge
HalfTurnedRamp == El("f", RAMP, 0, 20, 40, 60, 180)
BesideHalfTurned == El("g", ENTRANCE, 40, 20, 20, 20, 0)

FlushPool ==
    {FlushEntrance, FlushRamp, FlushExit, FlushRoad, LoneRamp, LoneExit,
     HalfTurnedRamp, BesideHalfTurned}

NextFlush ==
    \/ LoadLayout(EmptyLayout)
    \/ \E e \in FlushPool : AddElement(e, FlushElements)
    \/ Validate

SpecFlush == Init /\ [][NextFlush]_vars

\* el is turned by a whole number of quarter turns: its edges are parallel
\* to the axes
EdgesOnAxes(el) == RotationOrZero(el) % 90 = 0

\* the boxes p and q meet in a segment of one edge
BoxesShareOneEdge(p, q) ==
    \/ /\ p.right = q.left \/ q.right = p.left
       /\ Min(p.bottom, q.bottom) > Max(p.top, q.top)
    \/ /\ p.bottom = q.top \/ q.bottom = p.top
       /\ Min(p.right, q.right) > Max(p.left, q.left)

\* a and b differ in id, have their edges parallel to the axes, and their
\* turned rectangles share one edge
Flush(a, b) ==
    /\ a.id # b.id
    /\ EdgesOnAxes(a)
    /\ EdgesOnAxes(b)
    /\ BoxesShareOneEdge(TurnedBox(a), TurnedBox(b))

\* a connectivity_error for the element id with the message text
AdjacencyError(id, text) == InSeq(ConnectivityViolation(id, text), violations)

\* C19: two axis-aligned rectangles sharing exactly one edge satisfy
\* isTouching; so a validated layout has no "must be adjacent to a Ramp"
\* error for an entrance or exit set flush against a ramp, and no "Ramp
\* must connect to a Driving Lane" error for a ramp set flush against a road.
C19_FlushIsTouching ==
    validated /\ UniqueIds(Elements) =>
        \A i, j \in 1..Len(Elements) :
            Flush(Elements[i], Elements[j]) =>
                /\ isTouching(Elements[i], Elements[j], cornerCache).result
                /\ Elements[i].type \in {ENTRANCE, EXIT} /\ Elements[j].type = RAMP
                      => ~AdjacencyError(Elements[i].id,
                              Elements[i].type \o " must be adjacent to a Ramp.")
                /\ Elements[i].type = RAMP /\ Elements[j].type = ROAD
                      => ~AdjacencyError(Elements[i].id,
                              "Ramp must connect to a Driving Lane.")

\* the entrance set flush against the half-turned ramp: isTouching fails
\* for the pair and the entrance gets the adjacency error
C19_FlushAgainstHalfTurned ==
    /\ validated
    /\ HoldsExactly({HalfTurnedRamp, BesideHalfTurned})
    /\ Flush(BesideHalfTurned, HalfTurnedRamp)
    /\ ~isTouching(HalfTurnedRamp, BesideHalfTurned, cornerCache).result
    /\ AdjacencyError(BesideHalfTurned.id, "entrance must be adjacent to a Ramp.")

\* entrance, exit and road, all unrotated and on whole coordinates, flush
\* against the ramp: no adjacency error at all
C19_AllFlushValidated ==
    /\ validated
    /\ HoldsExactly({FlushEntrance, FlushRamp, FlushExit, FlushRoad})
    /\ Flush(FlushEntrance, FlushRamp)
    /\ Flush(FlushExit, FlushRamp)
    /\ Flush(FlushRamp, FlushRoad)
    /\ ViolationsOfType(violations, "connectivity_error") = <<>>

---------------------------------------------------------------------------
(* The distance pre-filter of the overlap pass *)

\* a and b are both solid and no rule of the overlap pass lets them overlap
MustNotOverlap(a, b) ==
    /\ a.id # b.id
    /\ a.type \in solidTypes
    /\ b.type \in solidTypes
    /\ ~PermittedOverlap(a, b)
    /\ ~ConnectorExempt(a, b)

\* C20: every pair of solid elements with distinct ids that no rule exempts
\* and whose polygons intersect has an overlap violation: the distance
\* pre-filter suppresses no pair whose polygons intersect.
C20_IntersectingSolidsReported ==
    validated /\ UniqueIds(Elements) =>
        \A i, j \in 1..Len(Elements) :
            ( /\ MustNotOverlap(Elements[i], Elements[j])
              /\ TrulyOverlapping(Elements[i], Elements[j]) )
            => OverlapReported(Elements[i], Elements[j])

---------------------------------------------------------------------------
(* Elements set near one another: a unit apart, in edge contact, a unit    *)
(* deep, and deep inside                                                   *)

\* the entrance ends a unit above the ramp, the road begins a unit below it
GapEntrance == El("a", ENTRANCE, 100, 99, 40, 20, 0)
NearRamp == El("b", RAMP, 100, 120, 40, 60, 0)
NearRoad == El("c", ROAD, 60, 181, 200, 30, 0)
\* in contact with the right edge x = 260 of the road
EdgeStair == El("d", STAIRCASE, 260, 181, 20, 20, 0)
\* ends a unit above the road
GapSign == El("e", GUIDANCE_SIGN, 150, 170, 10, 10, 0)
\* reaches 30 units down into the road, across its whole height
DeepRamp == El("9", RAMP, 200, 160, 40, 60, 0)
\* crosses the road from above to below
CrossingWalk == El("10", SIDEWALK, 120, 170, 10, 60, 0)
\* begins a unit above the lower edge y = 211 of the road
ShallowRamp == El("f", RAMP, 70, 210, 40, 60, 0)
\* a small exit inside the far corner of a large ramp
BigRamp == El("g", RAMP, 300, 300, 90, 90, 0)
CornerExit == El("h", EXIT, 385, 385, 4, 4, 0)

NearPool ==
    {GapEntrance, NearRamp, NearRoad, EdgeStair, GapSign, DeepRamp,
     CrossingWalk, ShallowRamp, BigRamp, CornerExit}

NextNear ==
    \/ LoadLayout(EmptyLayout)
    \/ \E e \in NearPool : AddElement(e, NearElements)
    \/ Validate

SpecNear == Init /\ [][NextNear]_vars

\* the margin by which the specification expands a box for the touch test
TouchMargin == 2

\* the unrotated boxes of a and b, each expanded by TouchMargin on every
\* side, overlap on both axes
ExpandedBoxesMeet(a, b) ==
    /\ a.x - TouchMargin < b.x + b.width + TouchMargin
    /\ b.x - TouchMargin < a.x + a.width + TouchMargin
    /\ a.y - TouchMargin < b.y + b.height + TouchMargin
    /\ b.y - TouchMargin < a.y + a.height + TouchMargin

\* C21: isTouching(a, b) is true whenever the polygons of a and b intersect
\* and also whenever their boxes, each expanded by the margin of 2 units,
\* overlap on both axes; so a gate less than the margin away from a ramp has
\* no "must be adjacent to a Ramp" error, and a ramp less than the margin
\* away from a road no "must connect to a Driving Lane" error.
C21_TouchingWithinMargin ==
    validated /\ UniqueIds(Elements) =>
        \A i, j \in 1..Len(Elements) :
            ( /\ i # j
              /\ \/ TrulyOverlapping(Elements[i], Elements[j])
                 \/ ExpandedBoxesMeet(Elements[i], Elements[j]) )
            => /\ isTouching(Elements[i], Elements[j], cornerCache).result
               /\ Elements[i].type \in {ENTRANCE, EXIT} /\ Elements[j].type = RAMP
                     => ~AdjacencyError(Elements[i].id,
                             Elements[i].type \o " must be adjacent to a Ramp.")
               /\ Elements[i].type = RAMP /\ Elements[j].type = ROAD
                     => ~AdjacencyError(Elements[i].id,
                             "Ramp must connect to a Driving Lane.")

---------------------------------------------------------------------------
(* Reachability of an exit *)

\* elements i and j are joined in the graph of navigable elements: both are
\* navigable, j is a broad-phase candidate of i, their polygons intersect
Linked(i, j) ==
    /\ Elements[i].type \in navigableTypes
    /\ Elements[j].type \in navigableTypes
    /\ InSeq(j, CandidatesOf(i))
    /\ TrulyOverlapping(Elements[i], Elements[j])

Neighbourhood(S) ==
    S \cup {j \in 1..Len(Elements) : \E i \in S : Linked(i, j) \/ Linked(j, i)}

\* the connected component of the elements S
RECURSIVE Component(_)
Component(S) == IF Neighbourhood(S) = S THEN S ELSE Component(Neighbourhood(S))

PathError(id) ==
    ConnectivityViolation(id, "No drivable path exists from this Entrance to any Exit.")

\* C22: for every entrance of a validated layout (ids unique) the "no
\* drivable path" connectivity_error naming it occurs once if the layout
\* has an exit and the entrance's connected component in the graph of
\* navigable elements holds none, and does not occur otherwise; the search
\* has ended with a result for every entrance.
C22_PathErrorIffNoExitInComponent ==
    validated /\ UniqueIds(Elements) =>
        \A i \in 1..Len(Elements) :
            Elements[i].type = ENTRANCE =>
                Occurrences(violations, PathError(Elements[i].id))
                    = IF /\ \E j \in 1..Len(Elements) : Elements[j].type = EXIT
                         /\ \A j \in Component({i}) : Elements[j].type # EXIT
                      THEN 1 ELSE 0

\* the entrance reaches the exit over the ramp and the road: three steps of
\* the search, no error
C22_ExitFoundOverRampAndRoad ==
    /\ validated
    /\ HoldsExactly(ConnectedScenario)
    /\ Occurrences(violations, PathError(ScnEntrance.id)) = 0
    /\ Component({1}) = 1..Len(Elements)

---------------------------------------------------------------------------
(* The connector exemption of the overlap pass *)

\* a ramp with a road, an entrance or an exit, both unrotated
ConnectorPairAt(i, j) ==
    /\ Elements[i].id # Elements[j].id
    /\ isConnectorPair(Elements[i].type, Elements[j].type)
    /\ AxisAligned(Elements[i])
    /\ AxisAligned(Elements[j])

\* the intersection box of the unrotated boxes of elements i and j
BoxAt(i, j) == getIntersectionBox(Elements[i], Elements[j])

\* C23: a ramp and a road, entrance or exit whose intersection box is less
\* than the connector threshold of 2 units wide or high have no overlap
\* violation; a ramp that reaches in deeper than the threshold in both
\* dimensions has one.
C23_ConnectorThreshold ==
    validated /\ UniqueIds(Elements) =>
        \A i, j \in 1..Len(Elements) :
            (ConnectorPairAt(i, j) /\ BoxAt(i, j) # NullBox) =>
                /\ (BoxAt(i, j).width < ConnectorThreshold
                        \/ BoxAt(i, j).height < ConnectorThreshold)
                      => ~OverlapReported(Elements[i], Elements[j])
                /\ (BoxAt(i, j).width > ConnectorThreshold
                        /\ BoxAt(i, j).height > ConnectorThreshold)
                      => OverlapReported(Elements[i], Elements[j])

---------------------------------------------------------------------------
(* Placement on and off the road *)

\* the unrotated box of the item overlaps the box of the road, padded by
\* pad, by at least EPSILON on both axes
DepthWithin(road, item, pad) ==
    /\ 2 * OverlapDepth(road.x, road.width, item.x, item.width, pad) >= EPSILON2
    /\ 2 * OverlapDepth(road.y, road.height, item.y, item.height, pad) >= EPSILON2

\* element j is a road among the broad-phase candidates of element i
CandidateRoad(i, j) == Elements[j].type = ROAD /\ InSeq(j, CandidatesOf(i))

OnRoadError(el) ==
    PlacementViolation(el.id, el.type \o " must be placed on a Driving Lane.")

OffRoadError(el) ==
    PlacementViolation(el.id, el.type \o " must NOT overlap a Driving Lane.")

\* C24: an item that must be on a road and lies within the padding of 2
\* units of a candidate road counts as placed on it, whether or not its own
\* rectangle intersects the road, and has no placement_error; with no
\* candidate road within the padding it has exactly one.
C24_OnRoadWithinPadding ==
    validated /\ UniqueIds(Elements) =>
        \A i \in 1..Len(Elements) :
            Elements[i].type \in itemsOnRoad =>
                Occurrences(violations, OnRoadError(Elements[i]))
                    = IF \E j \in 1..Len(Elements) :
                            /\ CandidateRoad(i, j)
                            /\ DepthWithin(Elements[j], Elements[i], OnRoadPad)
                      THEN 0 ELSE 1

\* C25: an item that must be off the road has one "must NOT overlap"
\* placement_error if some candidate road overlaps its box by at least
\* EPSILON on both axes and intersects its polygon, and none otherwise, so
\* none for mere edge contact with a road; a sidewalk never has one.
C25_OffRoadBeyondEpsilon ==
    validated /\ UniqueIds(Elements) =>
        \A i \in 1..Len(Elements) :
            /\ Elements[i].type \in
                  {STAIRCASE, ELEVATOR, SAFE_EXIT, FIRE_EXTINGUISHER, ENTRANCE, EXIT, RAMP}
                  => Occurrences(violations, OffRoadError(Elements[i]))
                        = IF \E j \in 1..Len(Elements) :
                                /\ CandidateRoad(i, j)
                                /\ DepthWithin(Elements[j], Elements[i], 0)
                                /\ TrulyOverlapping(Elements[j], Elements[i])
                          THEN 1 ELSE 0
            /\ Elements[i].type = SIDEWALK
                  => Occurrences(violations, OffRoadError(Elements[i])) = 0

\* the staircase in edge contact with the road has no error, the ramp deep
\* in the road has one
C25_EdgeContactAndDeepRamp ==
    /\ validated
    /\ HoldsExactly({NearRoad, EdgeStair, DeepRamp})
    /\ BoxesMeet(NearRoad, EdgeStair)
    /\ Occurrences(violations, OffRoadError(EdgeStair)) = 0
    /\ Occurrences(violations, OffRoadError(DeepRamp)) = 1

---------------------------------------------------------------------------
(* Adjacency of gates, ramps and roads *)

\* some broad-phase candidate of element i has one of the types and a
\* polygon that intersects the polygon of element i
TouchesSome(i, types) ==
    \E j \in 1..Len(Elements) :
        /\ Elements[j].type \in types
        /\ InSeq(j, CandidatesOf(i))
        /\ TrulyOverlapping(Elements[j], Elements[i])

GateError(el) ==
    ConnectivityViolation(el.id, el.type \o " must be adjacent to a Ramp.")

RampError(el) ==
    ConnectivityViolation(el.id, "Ramp must connect to a Driving Lane.")

\* C26: every entrance and every exit has exactly one "must be adjacent to
\* a Ramp" connectivity_error if no ramp among its broad-phase candidates
\* touches it, and none if one does; every ramp has exactly one "must
\* connect to a Driving Lane" connectivity_error if no road among its
\* candidates touches it, and none if one does.
C26_AdjacencyErrorIffUntouched ==
    validated /\ UniqueIds(Elements) =>
        \A i \in 1..Len(Elements) :
            /\ Elements[i].type \in {ENTRANCE, EXIT}
                  => Occurrences(violations, GateError(Elements[i]))
                        = IF TouchesSome(i, {RAMP}) THEN 0 ELSE 1
            /\ Elements[i].type = RAMP
                  => Occurrences(violations, RampError(Elements[i]))
                        = IF TouchesSome(i, {ROAD}) THEN 0 ELSE 1

\* an entrance on its ramp, and an exit and two ramps with nothing to touch
C26_TouchedAndUntouched ==
    /\ validated
    /\ HoldsExactly({FlushEntrance, FlushRamp, LoneRamp, LoneExit})
    /\ Occurrences(violations, GateError(FlushEntrance)) = 0
    /\ Occurrences(violations, GateError(LoneExit)) = 1
    /\ Occurrences(violations, RampError(FlushRamp)) = 1
    /\ Occurrences(violations, RampError(LoneRamp)) = 1

---------------------------------------------------------------------------
(* Shape of the overlap violations *)

\* the positions of the overlap violations in the list returned
OverlapsAt == {n \in 1..Len(violations) : violations[n].type = "overlap"}

\* the type of the element with the id `id` (ids unique)
TypeOfId(id) ==
    Elements[CHOOSE i \in 1..Len(Elements) : Elements[i].id = id].type

\* C27: with unique ids, no two overlap violations name the same unordered
\* pair of elements, the elementId of an overlap violation orders strictly
\* before its targetId, and both ids belong to elements of solid types
\* (never ground, a sign or a marking).
C27_OverlapOncePerOrderedSolidPair ==
    validated /\ UniqueIds(Elements) =>
        \A n \in OverlapsAt :
            /\ StrLess(violations[n].elementId, violations[n].targetId)
            /\ \A m \in OverlapsAt :
                  {violations[m].elementId, violations[m].targetId}
                        = {violations[n].elementId, violations[n].targetId}
                      => m = n
            /\ {TypeOfId(violations[n].elementId), TypeOfId(violations[n].targetId)}
                  \subseteq {PARKING_SPACE, PILLAR, WALL, STAIRCASE, ELEVATOR, ROAD,
                             RAMP, CHARGING_STATION, ENTRANCE, EXIT}

\* the road listed before the ramp that reaches into it, and a sidewalk
\* across the road: one overlap violation, ramp "9" before road "c"
C27_RampBeforeRoad ==
    /\ validated
    /\ HoldsExactly({NearRoad, DeepRamp, CrossingWalk})
    /\ Elements[1] = NearRoad
    /\ TrulyOverlapping(CrossingWalk, NearRoad)
    /\ ViolationsOfType(violations, "overlap") = <<OverlapViolation(DeepRamp, NearRoad)>>

---------------------------------------------------------------------------
(* getIntersectionBox on its own.  The function only compares, adds and    *)
(* subtracts its arguments, so it is applied here to rectangles measured   *)
(* in half units, in which an overlap of 0.5 units is the integer 1.       *)

Rect(x, y, w, h) == [x |-> x, y |-> y, width |-> w, height |-> h]

\* a square of 10 units, and squares that overlap it by 5, 2, 1.5, 1, 0.5
\* and 0 units in x or in y, or lie apart from it
RectPool ==
    {Rect(0, 0, 20, 20), Rect(10, 0, 20, 20), Rect(16, 0, 20, 20),
     Rect(17, 0, 20, 20), Rect(18, 0, 20, 20), Rect(19, 0, 20, 20),
     Rect(20, 0, 20, 20), Rect(22, 0, 20, 20), Rect(0, 19, 20, 20),
     Rect(0, 18, 20, 20), Rect(5, 5, 4, 4)}

InitBox ==
    /\ InitGeometry
    /\ boxCall \in {[pc |-> "call", r1 |-> r1, r2 |-> r2] : r1, r2 \in RectPool}
    /\ fix = NotCalled
    /\ retry = NotCalled

\* getIntersectionBox(r1, r2) returns
ReturnBox ==
    /\ boxCall.pc = "call"
    /\ boxCall' = [pc |-> "done", r1 |-> boxCall.r1, r2 |-> boxCall.r2,
                   box |-> getIntersectionBox(boxCall.r1, boxCall.r2)]
    /\ UNCHANGED <<geometry, fix, retry>>

NextBox == ReturnBox

SpecBox == InitBox /\ [][NextBox]_vars

\* the extent of the overlap of [lo1, lo1 + len1] and [lo2, lo2 + len2]
Lap(lo1, len1, lo2, len2) == Min(lo1 + len1, lo2 + len2) - Max(lo1, lo2)

LapWidth(r1, r2) == Lap(r1.x, r1.width, r2.x, r2.width)
LapHeight(r1, r2) == Lap(r1.y, r1.height, r2.y, r2.height)

\* C28: getIntersectionBox(r1, r2) returns none whenever the overlap of the
\* two boxes is at most EPSILON = 0.5 units wide or high; otherwise it
\* returns the box from (max lefts, max tops) to (min rights, min bottoms);
\* the result is the same with the arguments swapped.
C28_NoBoxUpToEpsilon ==
    boxCall.pc = "done" =>
        /\ boxCall.box
              = IF \/ LapWidth(boxCall.r1, boxCall.r2) <= EPSILON2
                   \/ LapHeight(boxCall.r1, boxCall.r2) <= EPSILON2
                THEN NullBox
                ELSE Rect(Max(boxCall.r1.x, boxCall.r2.x),
                          Max(boxCall.r1.y, boxCall.r2.y),
                          LapWidth(boxCall.r1, boxCall.r2),
                          LapHeight(boxCall.r1, boxCall.r2))
        /\ boxCall.box = getIntersectionBox(boxCall.r2, boxCall.r1)

---------------------------------------------------------------------------
(* generateWithRetry.  retry.events records what the call has done: the    *)
(* attempts (calls of ai.models.generateContent) with their outcome and    *)
(* the sleeps with their length.                                           *)

\* what a failing ai.models.generateContent call throws
Errors == {"quota exceeded", "network down"}

\* a test that takes no attempt for the last
NeverLast(i, retries) == FALSE

\* i === retries - 1
LastAttempt(i, retries) == i = retries - 1

\* generateWithRetry(ai, params, retries) is called
CallGenerate(retries) ==
    /\ retry.pc = "idle"
    /\ retry' = [pc |-> "loop", retries |-> retries, i |-> 0, events |-> <<>>]
    /\ UNCHANGED <<geometry, boxCall, fix>>

\* i < retries; return await ai.models.generateContent(params)
AttemptReturns ==
    /\ retry.pc = "loop"
    /\ retry.i < retry.retries
    /\ retry' = [retry EXCEPT
            !.pc = "returned",
            !.events = Append(@, [kind |-> "attempt", i |-> retry.i, ok |-> TRUE])]
    /\ UNCHANGED <<geometry, boxCall, fix>>

\* i < retries; the call throws e; catch: if (i === retries - 1) throw e
AttemptThrows(e) ==
    /\ retry.pc = "loop"
    /\ retry.i < retry.retries
    /\ retry' = [retry EXCEPT
            !.pc = IF LastAttempt(retry.i, retry.retries) THEN "thrown" ELSE "sleep",
            !.events = Append(@, [kind |-> "attempt", i |-> retry.i, ok |-> FALSE,
                                  error |-> e])]
    /\ UNCHANGED <<geometry, boxCall, fix>>

\* await sleep(2000 * Math.pow(2, i)); i++
Sleep ==
    /\ retry.pc = "sleep"
    /\ retry' = [retry EXCEPT
            !.pc = "loop",
            !.i = @ + 1,
            !.events = Append(@, [kind |-> "sleep", ms |-> BaseDelay * Pow2(retry.i)])]
    /\ UNCHANGED <<geometry, boxCall, fix>>

\* the loop ends; throw new Error("Failed after retries")
ThrowFailedAfterRetries ==
    /\ retry.pc = "loop"
    /\ ~(retry.i < retry.retries)
    /\ retry' = [retry EXCEPT !.pc = "failed after retries"]
    /\ UNCHANGED <<geometry, boxCall, fix>>

NextRetry ==
    \/ \E retries \in 0..MaxRetries : CallGenerate(retries)
    \/ AttemptReturns
    \/ \E e \in Errors : AttemptThrows(e)
    \/ Sleep
    \/ ThrowFailedAfterRetries

SpecRetry == Init /\ [][NextRetry]_vars

\* the events of the call that are attempts
Attempts == SelectSeq(retry.events, LAMBDA ev : ev.kind = "attempt")

\* event n is the failed attempt number i
FailedAttempt(n, i) ==
    /\ retry.events[n].kind = "attempt"
    /\ retry.events[n].i = i
    /\ ~retry.events[n].ok

\* C30: a call generateWithRetry(ai, params, retries) with retries >= 1
\* makes at most `retries` attempts, numbered from 0; it returns at the first
\* attempt that succeeds and makes no attempt after it; it sleeps only
\* after a failed attempt i that is not the last, for 2000 * 2^i ms, and
\* before attempt i + 1; after the failure of attempt retries - 1 it throws
\* the error of that attempt, and it never throws "Failed after retries".
C30_RetryDiscipline ==
    (retry.pc # "idle" /\ retry.retries >= 1) =>
        /\ Len(Attempts) <= retry.retries
        /\ \A n \in 1..Len(Attempts) : Attempts[n].i = n - 1
        /\ \A n \in 1..Len(retry.events) :
              /\ retry.events[n].kind = "attempt" /\ retry.events[n].ok
                    => n = Len(retry.events) /\ retry.pc = "returned"
              /\ retry.events[n].kind = "sleep"
                    => /\ n > 1
                       /\ \E i \in 0..(retry.retries - 2) :
                             /\ FailedAttempt(n - 1, i)
                             /\ retry.events[n].ms = BaseDelay * Pow2(i)
                             /\ n < Len(retry.events)
                                   => /\ retry.events[n + 1].kind = "attempt"
                                      /\ retry.events[n + 1].i = i + 1
        /\ retry.pc = "returned"
              => retry.events[Len(retry.events)].kind = "attempt"
                    /\ retry.events[Len(retry.events)].ok
        /\ retry.pc = "thrown"
              => FailedAttempt(Len(retry.events), retry.retries - 1)
        /\ retry.pc = "sleep"
              => \E i \in 0..(retry.retries - 2) : FailedAttempt(Len(retry.events), i)
        /\ retry.pc # "failed after retries"

\* three attempts have failed, with sleeps of 2000 and 4000 ms between
\* them, and the error of the third is thrown
C30_ThirdErrorThrown ==
    /\ retry.pc = "thrown"
    /\ retry.retries = 3
    /\ Len(Attempts) = 3
    /\ retry.events[2] = [kind |-> "sleep", ms |-> 2000]
    /\ retry.events[4] = [kind |-> "sleep", ms |-> 4000]
    /\ retry.events[5].error = "network down"

---------------------------------------------------------------------------
(* runIterativeFix.  The layout under repair is `layout` (currentLayout);  *)
(* every pass calls validateLayout on it against the module cache.         *)
(* fix.log has one entry per validation pass: its score, whether a fix was *)
(* requested of the model, and whether that request or its parse threw.    *)

MODEL_PRIMARY == "gemini-3-pro-preview"
MODEL_FALLBACK == "gemini-2.5-pro"

Weight(v) ==
    IF v.type = "overlap" THEN OverlapWeight
    ELSE IF v.type = "connectivity_error" THEN ConnectivityWeight
    ELSE IF v.type = "out_of_bounds" THEN OutOfBoundsWeight
    ELSE OtherWeight

\* violations.reduce((acc, v) => acc + weight of v.type, 0)
RECURSIVE ScoreFrom(_, _, _)
ScoreFrom(vs, n, acc) ==
    IF n > Len(vs) THEN acc ELSE ScoreFrom(vs, n + 1, acc + Weight(vs[n]))

calculateScore(vs) == ScoreFrom(vs, 1, 0)

\* the position of the element with this id in the list, 0 if there is none
RECURSIVE PositionOf(_, _, _)
PositionOf(elements, id, n) ==
    IF n > Len(elements) THEN 0
    ELSE IF elements[n].id = id THEN n
    ELSE PositionOf(elements, id, n + 1)

\* { ...existing, ...update }
Spread(existing, update) ==
    [f \in DOMAIN existing \cup DOMAIN update |->
        IF f \in DOMAIN update THEN update[f] ELSE existing[f]]

\* elementMap.set(id, el): a key already in the map keeps its place
EntrySet(entries, id, el) ==
    IF PositionOf(entries, id, 1) = 0 THEN Append(entries, el)
    ELSE [entries EXCEPT ![PositionOf(entries, id, 1)] = el]

\* new Map(original.map(el => [el.id, el])), as the list of its values
RECURSIVE MapOf(_, _, _)
MapOf(original, n, entries) ==
    IF n > Len(original) THEN entries
    ELSE MapOf(original, n + 1, EntrySet(entries, original[n].id, original[n]))

\* `el_${Math.random().toString(36).substr(2, 9)}`: ids it may come to
RandomIds == {"el_4fzzzxjyl", "el_8m2k0q7wc"}

\* update.id && elementMap.has(update.id): an id "" is falsy
Known(entries, update) ==
    update.id # "" /\ PositionOf(entries, update.id, 1) # 0

\* update.id || `el_${...}`: random lists the ids that the calls of
\* Math.random still to come produce
NewId(update, random) == IF update.id # "" THEN update.id ELSE random[1]

\* the ids left once the update has had its own
Unused(update, random) == IF update.id # "" THEN random ELSE Tail(random)

\* { ...update, id: newId }
Renamed(update, newId) == [update EXCEPT !.id = newId]

\* updates.forEach(...)
RECURSIVE MergeFrom(_, _, _, _)
MergeFrom(entries, updates, n, random) ==
    IF n > Len(updates) THEN entries
    ELSE MergeFrom(
            IF Known(entries, updates[n])
            THEN EntrySet(entries, updates[n].id,
                        Spread(entries[PositionOf(entries, updates[n].id, 1)],
                               updates[n]))
            ELSE EntrySet(entries, NewId(updates[n], random),
                        Renamed(updates[n], NewId(updates[n], random))),
            updates, n + 1, Unused(updates[n], random))

mergeLayoutElements(original, updates, random) ==
    MergeFrom(MapOf(original, 1, <<>>), updates, 1, random)

\* the lists of ids Math.random may produce for the updates without an id
RandomDraws(updates) ==
    [1..Cardinality({n \in 1..Len(updates) : updates[n].id = ""}) -> RandomIds]

\* elements.filter(e => e.type === ElementType.GROUND).length
GroundCount(elements) == Len(SelectSeq(elements, LAMBDA e : e.type = GROUND))

\* model === MODEL_FALLBACK || countDiff < 0 || groundReduced
shouldUseMerge(model, current, fixed) ==
    IF model = MODEL_FALLBACK THEN TRUE
    ELSE IF Len(fixed.elements) - Len(current.elements) < 0 THEN TRUE
    ELSE GroundCount(fixed.elements) < GroundCount(current.elements)

\* currentLayout after the answer fixedLayout has been taken in
Taken(model, current, fixed, random) ==
    IF shouldUseMerge(model, current, fixed)
    THEN [current EXCEPT
            !.elements = mergeLayoutElements(current.elements, fixed.elements,
                                             random)]
    ELSE fixed

\* a test that never finds the score stagnant
StagnatedNever(score, lastScore, pass) == FALSE

\* score >= lastScore && pass > 1
Stagnated(score, lastScore, pass) == score >= lastScore /\ pass > 1

\* a gate / ramp / road / ramp / gate chain that meets corner to corner, each
\* element small enough beside the one before it for validateLayout to
\* return no violation
Chain ==
    <<El("a", ENTRANCE, 0, 0, 250, 250, 0), El("b", RAMP, 250, 250, 100, 100, 0),
      El("c", ROAD, 350, 350, 40, 40, 0), El("g", RAMP, 390, 390, 16, 16, 0),
      El("h", EXIT, 406, 406, 6, 6, 0)>>

PillarIds == <<"p1", "p2", "p3", "p4", "p5", "p6", "p7">>

\* pillar n of the layout, across the left border or inside it
PillarAt(n, across) ==
    El(PillarIds[n], PILLAR, IF across THEN 0 - 5 ELSE 5, 280 + 20 * n, 10, 10, 0)

Island == El("island", GROUND, 500, 100, 60, 60, 0)

\* the chain, an island, and MaxFlaws pillars of which the first `flaws`
\* lie across the border
Flawed(flaws) ==
    [width |-> CanvasWidth, height |-> CanvasHeight,
     elements |-> Chain \o <<Island>>
                    \o [n \in 1..MaxFlaws |-> PillarAt(n, n <= flaws)]]

\* what runIterativeFix is called on
FixInputs == {Flawed(MaxFlaws), Flawed(2), EmptyLayout}

\* two elements of an answer whose raw id is []: String([]) is ""
Nameless == <<El("", WALL, 5, 5, 10, 10, 0), El("", PILLAR, 6, 6, 10, 10, 0)>>

\* what mapToInternalLayout(cleanAndParseJSON(response.text)) may be: a
\* whole layout, the one element that was moved, a layout that has lost
\* its island, elements without an id, or the layout of "{}"
Answers ==
    {Flawed(flaws) : flaws \in 0..MaxFlaws}
        \cup {[width |-> CanvasWidth, height |-> CanvasHeight,
               elements |-> <<PillarAt(n, FALSE)>>] : n \in {1, MaxFlaws}}
        \cup {[width |-> CanvasWidth, height |-> CanvasHeight,
               elements |-> Chain \o <<El("d", PILLAR, 500, 100, 60, 60, 0)>>
                              \o [n \in 1..MaxFlaws |-> PillarAt(n, n <= 1)]]}
        \cup {[width |-> CanvasWidth, height |-> CanvasHeight,
               elements |-> Nameless]}
        \cup {EmptyLayout}

\* runIterativeFix(layout, ai, model, onLog, maxPasses) is called
CallFix(lay, model, maxPasses) ==
    /\ fix.pc = "idle"
    /\ fix' = [pc |-> "loop", pass |-> 1, lastScore |-> Infinity,
               model |-> model, maxPasses |-> maxPasses, log |-> <<>>]
    /\ layout' = lay
    /\ UNCHANGED <<cornerCache, violations, validated, calls, cacheAtCall>>
    /\ UNCHANGED <<boxCall, retry>>

\* pass <= maxPasses: validateLayout(currentLayout), calculateScore, the two
\* breaks, lastScore = score
ValidatePass ==
    /\ fix.pc = "loop"
    /\ fix.pass <= fix.maxPasses
    /\ violations' = validateLayout(layout, cornerCache).violations
    /\ cornerCache' = validateLayout(layout, cornerCache).cache
    /\ cacheAtCall' = cornerCache
    /\ calls' = calls + 1
    /\ validated' = TRUE
    /\ fix' = IF calculateScore(violations') = 0
              THEN [fix EXCEPT
                      !.pc = "done",
                      !.log = Append(@, [score |-> 0, requested |-> FALSE,
                                         threw |-> FALSE])]
              ELSE IF Stagnated(calculateScore(violations'), fix.lastScore, fix.pass)
              THEN [fix EXCEPT
                      !.pc = "done",
                      !.log = Append(@, [score |-> calculateScore(violations'),
                                         requested |-> FALSE, threw |-> FALSE])]
              ELSE [fix EXCEPT
                      !.pc = "request",
                      !.lastScore = calculateScore(violations'),
                      !.log = Append(@, [score |-> calculateScore(violations'),
                                         requested |-> TRUE, threw |-> FALSE])]
    /\ UNCHANGED layout
    /\ UNCHANGED <<boxCall, retry>>

\* the request returns and parses to fixedLayout; merge or replace; pass++
AnswerTaken(fixedLayout, random) ==
    /\ fix.pc = "request"
    /\ layout' = Taken(fix.model, layout, fixedLayout, random)
    /\ fix' = [fix EXCEPT !.pc = "loop", !.pass = @ + 1]
    /\ validated' = FALSE
    /\ UNCHANGED <<cornerCache, violations, calls, cacheAtCall>>
    /\ UNCHANGED <<boxCall, retry>>

\* generateWithRetry or cleanAndParseJSON throws; the catch logs; pass++
AnswerThrows ==
    /\ fix.pc = "request"
    /\ fix' = [fix EXCEPT !.pc = "loop", !.pass = @ + 1,
                          !.log[Len(fix.log)].threw = TRUE]
    /\ UNCHANGED geometry
    /\ UNCHANGED <<boxCall, retry>>

\* pass > maxPasses: return currentLayout
PassesUsedUp ==
    /\ fix.pc = "loop"
    /\ ~(fix.pass <= fix.maxPasses)
    /\ fix' = [fix EXCEPT !.pc = "done"]
    /\ UNCHANGED geometry
    /\ UNCHANGED <<boxCall, retry>>

NextFix ==
    \/ \E lay \in FixInputs, model \in {MODEL_PRIMARY, MODEL_FALLBACK},
          maxPasses \in {0, 2, DefaultMaxPasses} : CallFix(lay, model, maxPasses)
    \/ ValidatePass
    \/ \E fixedLayout \in Answers :
          \E random \in RandomDraws(fixedLayout.elements) :
              AnswerTaken(fixedLayout, random)
    \/ AnswerThrows
    \/ PassesUsedUp

\* validateLayout returns: a pass that has begun counts one more call
PassValidated ==
    /\ fix.pc = "loop"
    /\ fix.pass <= fix.maxPasses
    /\ calls' = calls + 1

\* the AI call of a pass returns or throws
Answered ==
    \/ AnswerThrows
    \/ \E fixedLayout \in Answers :
          \E random \in RandomDraws(fixedLayout.elements) :
              AnswerTaken(fixedLayout, random)

\* the awaited call settles and the synchronous steps of the loop are taken
SpecFix ==
    /\ Init
    /\ [][NextFix]_vars
    /\ WF_calls(PassValidated)
    /\ WF_vars(Answered)
    /\ WF_vars(PassesUsedUp)

\* what the passes made so far have done, read off fix.log
FixDiscipline ==
    fix.pc # "idle" =>
        /\ Len(fix.log) <= fix.maxPasses
        /\ calls = Len(fix.log)
        /\ \A n \in 1..Len(fix.log) :
              /\ fix.log[n].score = calculateScore(<<>>) => ~fix.log[n].requested
              /\ n > 1 /\ fix.log[n].requested
                    => fix.log[n].score < fix.log[n - 1].score
              /\ fix.log[n].threw /\ n = Len(fix.log) => validated
              /\ fix.log[n].threw /\ n < Len(fix.log)
                    => /\ fix.log[n + 1].score = fix.log[n].score
                       /\ ~fix.log[n + 1].requested
                       /\ n + 1 = Len(fix.log)
                       /\ fix.pc = "done"

\* C29: when every AI call returns or throws, runIterativeFix returns, and
\* it has then made at most maxPasses calls of validateLayout; a pass whose
\* score is 0 requests no fix; a pass after the first requests a fix only
\* if its score is strictly below the score of the pass before it; a pass
\* whose request or parse throws leaves the layout as it was validated, and
\* the pass after it finds the same score, requests nothing and is the last.
C29_FixTerminatesWithinPasses ==
    []FixDiscipline /\ (fix.pc # "idle" ~> fix.pc = "done")

\* with the default maxPasses of 6: five passes requested a fix at falling
\* scores, the fifth request threw, and the sixth pass stopped at the score
\* of the fifth
C29_ThrowThenStagnation ==
    /\ fix.pc = "done"
    /\ fix.maxPasses = DefaultMaxPasses
    /\ Len(fix.log) = DefaultMaxPasses
    /\ \A n \in 1..(DefaultMaxPasses - 1) : fix.log[n].requested
    /\ fix.log[DefaultMaxPasses - 1].threw
    /\ ~fix.log[DefaultMaxPasses].requested
    /\ fix.log[DefaultMaxPasses].score = OutOfBoundsWeight

====
